---------------------------- MODULE Spec2Model ----------------------------
(***************************************************************************)
(* A model of mplstereonet's numeric core: the coordinate conversions of   *)
(* stereonet_math.py, the eigenvector fits and the spherical k-means of    *)
(* analysis.py, the density gridding of contouring.py, the parsers of      *)
(* utilities.py and the rotation of a StereonetAxes.                       *)
(*                                                                         *)
(* Numbers.  A float is modelled in fixed point: the integer m stands for  *)
(* m / Scale.  Angles are fixed point too: degrees in units of 1 / Deg,    *)
(* radians in units of 1 / AngScale (pi = PiFix / AngScale).  The          *)
(* trigonometric functions are tabulated at whole degrees and continued    *)
(* between them by their series.  Where a float operation can round to     *)
(* either side of an exact value, the conversion is the set of its         *)
(* outcomes.  Where the floats give a tiny non-zero                        *)
(* value instead of an exact zero (np.cos(np.pi/2) = 6.1e-17) the model    *)
(* keeps it: a cartesian component is a pair <<e, m>> standing for         *)
(* (m / Scale) * eps^e, with eps = np.cos(np.pi/2); sums keep the leading  *)
(* order, as the floats absorb the smaller term.  NaN is a value of its    *)
(* own.                                                                    *)
(***************************************************************************)
EXTENDS Integers, Sequences, FiniteSets, TLC

VARIABLES
    \* a call of pole(strike, dip) by a caller that keeps its argument objects:
    \*   pc        "idle" | "call" | "returned"
    \*   strikeObj the caller's strike object, [kind, data]
    \*   dipObj    the caller's dip object, [kind, data]
    \*   lon, lat  what pole returned (radians)
    poleCall,
    \* a call of cart2sph(x, y, z):
    \*   pc        "idle" | "call" | "returned"
    \*   xyz       the argument <<x, y, z>> (fixed point)
    \*   lon, lat  what cart2sph returned (radians, or NaN)
    cartCall,
    \* a call of kmeans(strike, dip, num, bidirectional, tolerance):
    \*   pc            "idle" | "Init" | "Assign" | "Reestimate" | "Test" |
    \*                 "Converged" | "Raised"
    \*   points        the measurements, <<lon, lat>> in radians
    \*   num, bidirectional, tolerance   the arguments
    \*   sign          the sign convention of the library's eigenvectors
    \*   centers       the current centers, <<lon, lat>>
    \*   closest       for each point the index of its center
    \*   new_centers   the re-estimated centers
    kmCall,
    \* a call of density_grid(strike, dip, method = ..., sigma = ...,
    \* gridsize = ..., weights = ...):
    \*   pc            "idle" | "call" | "returned" | "raised"
    \*   strike, dip   the measurements, in degrees
    \*   method, sigma, gridsize   the keyword arguments (gridsize <<n>> is
    \*                 the int n, <<nrows, ncols>> the tuple)
    \*   weights       [kind |-> "None"] or [kind |-> "array"] with its data
    \*   lon, lat, z   the three arrays returned
    dnCall,
    \* a call of one conversion of stereonet_math.py on one element:
    \*   pc        "idle" | "call" | "returned"
    \*   fn        the name of the function
    \*   src       where the arguments come from: <<"pole", strike, dip>>,
    \*             <<"rake", strike, dip, rake_angle>>, ... or <<"given">>
    \*   args      the arguments
    \*   out       what the function returned
    mathCall,
    \* a call of an entry point that takes a measurement keyword:
    \*   pc        "idle" | "call" | "returned" | "raised"
    \*   fn        the name of the entry point
    \*   measurement, method   the keyword arguments
    \*   ran       the steps that ran, in order
    \*   error     the exception raised, or None
    dispCall,
    \* a call of an entry point of analysis.py that works on the covariance
    \* of the measurements, or of find_fisher_stats:
    \*   pc        "idle" | "call" | "returned" | "raised"
    \*   fn        the name of the entry point
    \*   src       where the measurements come from
    \*   measurement   the keyword argument: what the measurements are
    \*   points    the measurements, each a pair
    \*   later     the measurements of the calls the caller makes next
    \*   bidirectional   the keyword argument
    \*   signs     the signs the library gives the three eigenvectors
    \*   conf      the confidence level (find_fisher_stats)
    \*   out       what the calls returned, in order
    \*   error     the exception raised, or None
    anCall,
    \* a call of a parser of utilities.py:
    \*   pc        "idle" | "call" | "returned" | "raised"
    \*   fn        the name of the parser
    \*   src       the numbers of degrees that the strings stand for
    \*   args      the strings given
    \*   out       what the parser returned
    \*   error     the exception raised, or None
    parseCall,
    \* a StereonetAxes and what its caller holds:
    \*   pc        "none" | "made" | "set" | "got"
    \*   _rotation the attribute of the axes (radians)
    \*   supplied  the rotation most recently supplied (degrees)
    \*   by        how it was supplied: "__init__" | "set_rotation"
    \*   got       what the last get_rotation() returned, or None
    axesObj

vars == <<poleCall, cartCall, kmCall, dnCall, mathCall, dispCall, anCall,
          parseCall, axesObj>>

---------------------------------------------------------------------------
(* Fixed-point arithmetic *)

Scale == 10^6

\* Scale = Half * Half: a product of two values is formed from their halves
Half == 10^3

\* the unit of an angle in radians is 1 / AngScale
AngScale == 10^6

\* np.pi in units of 1 / AngScale (the even number below pi, so that pi/2 is
\* a whole number of units)
PiFix == 3141592

\* the float NaN (0/0, arcsin of NaN, ...)
NaN == -(2^30)

\* the element of a set of one element; The({e : v \in {a}}) is e with v
\* standing for the value of a, computed once
The(S) == CHOOSE x \in S : TRUE

\* the sequence s with its elements computed once
Array(s) == s \o <<>>

Abs(a) == IF a < 0 THEN -a ELSE a

Sgn(a) == IF a < 0 THEN -1 ELSE IF a > 0 THEN 1 ELSE 0

\* a / b rounded toward zero (b # 0)
TDiv(a, b) ==
    The({Sgn(u) * Sgn(v) * (Abs(u) \div Abs(v)) : u \in {a}, v \in {b}})

\* a / b rounded to nearest (b # 0)
RoundDiv(a, b) ==
    The({Sgn(u) * Sgn(v) * ((Abs(u) + Abs(v) \div 2) \div Abs(v)) :
            u \in {a}, v \in {b}})

\* the unrounded product a * b of a, b >= 0, as <<hi, lo>> = hi * Scale + lo
WMul(a, b) ==
    The({The({<<ah * bh + mid \div Half + lo \div Scale, lo % Scale>> :
                 lo \in {(mid % Half) * Half + al * bl}}) :
            ah \in {a \div Half}, al \in {a % Half},
            bh \in {b \div Half}, bl \in {b % Half},
            mid \in {(a \div Half) * (b % Half) + (a % Half) * (b \div Half)}})

WAdd(u, v) == <<u[1] + v[1] + (u[2] + v[2]) \div Scale, (u[2] + v[2]) % Scale>>

WLe(u, v) == u[1] < v[1] \/ (u[1] = v[1] /\ u[2] <= v[2])

\* |u - v|
WAbsDiff(u, v) ==
    LET a == IF WLe(u, v) THEN v ELSE u
        b == IF WLe(u, v) THEN u ELSE v
    IN  IF a[2] >= b[2] THEN <<a[1] - b[1], a[2] - b[2]>>
        ELSE <<a[1] - b[1] - 1, a[2] + Scale - b[2]>>

\* the fixed-point product a * b, rounded toward zero
MulT(a, b) ==
    The({Sgn(u) * Sgn(v) * WMul(Abs(u), Abs(v))[1] : u \in {a}, v \in {b}})

RECURSIVE LongDiv(_, _, _)
\* k decimal digits of r / b   (0 <= r < b)
LongDiv(r, b, k) ==
    IF k = 0 THEN 0
    ELSE ((r * 10) \div b) * 10^(k - 1) + LongDiv((r * 10) % b, b, k - 1)

\* the fixed-point quotient a / b, rounded toward zero (b # 0)
DivT(a, b) ==
    The({Sgn(u) * Sgn(v) * ((Abs(u) \div Abs(v)) * Scale
                            + LongDiv(Abs(u) % Abs(v), Abs(v), 6)) :
            u \in {a}, v \in {b}})

RECURSIVE SqrtSearch(_, _, _)
SqrtSearch(w, lo, hi) ==
    IF lo >= hi THEN lo
    ELSE LET mid == (lo + hi + 1) \div 2
         IN  IF WLe(WMul(mid, mid), w) THEN SqrtSearch(w, mid, hi)
             ELSE SqrtSearch(w, lo, mid - 1)

\* floor(sqrt(w)) as a fixed-point value, of the unrounded w = <<hi, lo>>
WSqrt(w) == SqrtSearch(w, 0, 16 * Scale)

\* a whole number d of degrees in radians, and the whole number of degrees
\* nearest to r radians
Radians(d) == IF d = NaN THEN NaN ELSE RoundDiv(d * PiFix, 180)
Degrees(r) == IF r = NaN THEN NaN ELSE RoundDiv(r * 180, PiFix)

\* an angle in degrees is fixed point as well: Deg is one degree
Deg == 10^6

\* np.radians of an angle in degrees: the nearest whole degree and the rest
np_radians(m) ==
    IF m = NaN THEN NaN
    ELSE LET d == RoundDiv(m, Deg)
         IN  Radians(d) + MulT(m - d * Deg, 17453)

\* np.degrees of an angle in radians
np_degrees(r) ==
    IF r = NaN THEN NaN
    ELSE LET d == Degrees(r)
         IN  d * Deg + MulT(r - Radians(d), 57295780)

---------------------------------------------------------------------------
(* Floats with the tiny values kept: <<e, m>> is (m / Scale) * eps^e *)

NZero == <<0, 0>>
NNaN == <<0, NaN>>
Fix(m) == <<0, m>>
NIsNaN(a) == a[2] = NaN

\* the value as plain fixed point: a tiny value is below the resolution
ToFix(a) == IF NIsNaN(a) THEN NaN ELSE IF a[1] > 0 THEN 0 ELSE a[2]

NNeg(a) == IF NIsNaN(a) THEN a ELSE <<a[1], -a[2]>>

NAbs(a) == IF NIsNaN(a) THEN a ELSE <<a[1], Abs(a[2])>>

NMul(a, b) ==
    IF NIsNaN(a) \/ NIsNaN(b) THEN NNaN
    ELSE LET p == MulT(a[2], b[2])
         IN  IF p = 0 THEN NZero ELSE <<a[1] + b[1], p>>

NAdd(a, b) ==
    IF NIsNaN(a) \/ NIsNaN(b) THEN NNaN
    ELSE IF a[2] = 0 THEN b
    ELSE IF b[2] = 0 THEN a
    ELSE IF a[1] < b[1] THEN a
    ELSE IF b[1] < a[1] THEN b
    ELSE IF a[2] + b[2] = 0 THEN NZero
    ELSE <<a[1], a[2] + b[2]>>

\* a / b; 0/0 is NaN (a non-zero a over 0 does not arise: |a| <= |b|)
NDiv(a, b) ==
    IF NIsNaN(a) \/ NIsNaN(b) \/ b[2] = 0 THEN NNaN
    ELSE LET q == DivT(a[2], b[2])
         IN  IF q = 0 THEN NZero ELSE <<a[1] - b[1], q>>

\* sqrt(x**2 + y**2 + z**2): the squares are summed unrounded
NNorm(x, y, z) ==
    IF NIsNaN(x) \/ NIsNaN(y) \/ NIsNaN(z) THEN NNaN
    ELSE LET nz == {c \in {x, y, z} : c[2] # 0}
         IN  IF nz = {} THEN NZero
             ELSE LET e == CHOOSE k \in {c[1] : c \in nz} :
                               \A c \in nz : k <= c[1]
                      lead(c) == IF c[2] # 0 /\ c[1] = e
                                 THEN WMul(Abs(c[2]), Abs(c[2])) ELSE <<0, 0>>
                  IN  <<e, WSqrt(WAdd(WAdd(lead(x), lead(y)), lead(z)))>>

---------------------------------------------------------------------------
(* np.sin, np.cos, np.arcsin, np.arccos, np.arctan2 *)

\* floor(Scale * sin(d)) for d = 0 .. 90 degrees (index d + 1)
SinTab == <<
    0, 17452, 34899, 52335, 69756, 87155, 104528, 121869,
    139173, 156434, 173648, 190808, 207911, 224951, 241921, 258819,
    275637, 292371, 309016, 325568, 342020, 358367, 374606, 390731,
    406736, 422618, 438371, 453990, 469471, 484809, 500000, 515038,
    529919, 544639, 559192, 573576, 587785, 601815, 615661, 629320,
    642787, 656059, 669130, 681998, 694658, 707106, 719339, 731353,
    743144, 754709, 766044, 777145, 788010, 798635, 809016, 819152,
    829037, 838670, 848048, 857167, 866025, 874619, 882947, 891006,
    898794, 906307, 913545, 920504, 927183, 933580, 939692, 945518,
    951056, 956304, 961261, 965925, 970295, 974370, 978147, 981627,
    984807, 987688, 990268, 992546, 994521, 996194, 997564, 998629,
    999390, 999847, 1000000 >>

\* sin and cos of a whole number of degrees in 0 .. 360, plain fixed point
SinPlain(d) ==
    IF d <= 90 THEN SinTab[d + 1]
    ELSE IF d <= 180 THEN SinTab[180 - d + 1]
    ELSE IF d <= 270 THEN -SinTab[d - 180 + 1]
    ELSE -SinTab[360 - d + 1]

CosPlain(d) == SinPlain((d + 90) % 360)

\* np.sin of d degrees.  At a multiple of 180 other than 0 the float
\* argument k*(pi/2) falls short of the true zero by k*eps and the result is
\* the tiny value -k*eps*cos(d), e.g. np.sin(np.pi) = 1.2e-16 = 2 eps.
SinDeg(d) ==
    IF d = NaN THEN NNaN
    ELSE IF d = 0 THEN NZero
    ELSE IF d % 180 = 0 THEN <<1, -(d \div 90) * CosPlain(d % 360)>>
    ELSE Fix(SinPlain(d % 360))

\* np.cos of d degrees; np.cos(np.pi/2) = eps, np.cos(3*np.pi/2) = -3 eps
CosDeg(d) ==
    IF d = NaN THEN NNaN
    ELSE IF d % 180 = 90 THEN <<1, (d \div 90) * SinPlain(d % 360)>>
    ELSE Fix(CosPlain(d % 360))

\* an angle within the rounding error of the arithmetic of a whole number of
\* degrees is that whole number of degrees
Snap(r) ==
    IF r = NaN THEN NaN
    ELSE IF Abs(r - Radians(Degrees(r))) <= 5 THEN Radians(Degrees(r))
    ELSE r

\* sin and cos of an angle f of at most one degree, in radians
SinSmall(f) == f - TDiv(MulT(MulT(f, f), f), 6)
CosSmall(f) == Scale - MulT(f, f) \div 2

\* np.sin, np.cos of an angle in radians: the whole degrees d from the
\* table and the rest f by sin(d + f) = sin d cos f + cos d sin f
Sin(r) ==
    IF r = NaN THEN NNaN
    ELSE The({IF f = 0 THEN SinDeg(Degrees(r))
              ELSE Fix(MulT(SinPlain(Degrees(r) % 360), CosSmall(f))
                         + MulT(CosPlain(Degrees(r) % 360), SinSmall(f))) :
                 f \in {r - Radians(Degrees(r))}})

Cos(r) ==
    IF r = NaN THEN NNaN
    ELSE The({IF f = 0 THEN CosDeg(Degrees(r))
              ELSE Fix(MulT(CosPlain(Degrees(r) % 360), CosSmall(f))
                         - MulT(SinPlain(Degrees(r) % 360), SinSmall(f))) :
                 f \in {r - Radians(Degrees(r))}})

RECURSIVE AsinSearch(_, _, _)
\* the largest d in lo .. hi with sin(d) <= v
AsinSearch(v, lo, hi) ==
    IF lo >= hi THEN lo
    ELSE LET mid == (lo + hi + 1) \div 2
         IN  IF SinTab[mid + 1] <= v THEN AsinSearch(v, mid, hi)
             ELSE AsinSearch(v, lo, mid - 1)

RECURSIVE AsinRest(_, _, _, _)
\* the largest f in lo .. hi (radians) with sin(d + f) <= v
AsinRest(v, d, lo, hi) ==
    IF lo >= hi THEN lo
    ELSE LET mid == (lo + hi + 1) \div 2
         IN  IF MulT(SinPlain(d), CosSmall(mid))
                    + MulT(CosPlain(d), SinSmall(mid)) <= v
             THEN AsinRest(v, d, mid, hi)
             ELSE AsinRest(v, d, lo, mid - 1)

\* np.arcsin of a plain fixed-point value, in radians; NaN outside [-1, 1]
ArcsinFix(v) ==
    IF v = NaN \/ Abs(v) > Scale THEN NaN
    ELSE The({IF SinTab[d + 1] = Abs(v) THEN Sgn(v) * Radians(d)
              ELSE Sgn(v) * Snap(Radians(d)
                                   + AsinRest(Abs(v), d, 0, Radians(1))) :
                 d \in {AsinSearch(Abs(v), 0, 90)}})

\* np.arcsin, in radians
Arcsin(a) ==
    IF NIsNaN(a) THEN NaN
    ELSE IF a[1] < 0 THEN NaN
    ELSE ArcsinFix(ToFix(a))

\* np.arccos of a plain fixed-point value, in radians
Arccos(v) ==
    IF v = NaN \/ Abs(v) > Scale THEN NaN
    ELSE PiFix \div 2 - ArcsinFix(v)

RECURSIVE AtanSearch(_, _, _, _)
\* the largest d in lo .. hi with tan(d) <= y / x   (x, y >= 0, not both 0)
AtanSearch(y, x, lo, hi) ==
    IF lo >= hi THEN lo
    ELSE LET mid == (lo + hi + 1) \div 2
         IN  IF WLe(WMul(SinPlain(mid), x), WMul(CosPlain(mid), y))
             THEN AtanSearch(y, x, mid, hi)
             ELSE AtanSearch(y, x, lo, mid - 1)

\* the angle of (x, y), x, y >= 0 and not both 0, in radians: the whole
\* degrees d by search and the rest from the vector turned back by d,
\* atan(t) = t - t^3 / 3.  A short vector is lengthened first.
AtanFix(y, x) ==
    LET m  == IF x > y THEN x ELSE y
        k  == IF m < Scale THEN Scale \div m ELSE 1
        X  == k * x
        Y  == k * y
        xr(d) == MulT(X, CosPlain(d)) + MulT(Y, SinPlain(d))
        yr(d) == MulT(Y, CosPlain(d)) - MulT(X, SinPlain(d))
    IN  The({IF WMul(SinPlain(d), X) = WMul(CosPlain(d), Y) THEN Radians(d)
             ELSE The({Snap(Radians(d) + t - TDiv(MulT(MulT(t, t), t), 3)) :
                          t \in {IF yr(d) <= 0 THEN 0
                                 ELSE DivT(yr(d), xr(d))}}) :
                d \in {AtanSearch(Y, X, 0, 90)}})

\* np.arctan2(y, x) of plain fixed-point values, in radians in [-pi, pi];
\* ysign is the sign of a y that is zero at this resolution
Arctan2Fix(y, x, ysign) ==
    IF y = 0 /\ x = 0 THEN 0
    ELSE LET a == AtanFix(Abs(y), Abs(x))
         IN  IF x >= 0 THEN Sgn(y) * a
             ELSE IF y > 0 THEN PiFix - a
             ELSE IF y < 0 THEN a - PiFix
             ELSE IF ysign < 0 THEN -PiFix ELSE PiFix

\* np.arctan2(y, x), in radians: the direction is that of the leading order
Arctan2(y, x) ==
    IF NIsNaN(y) \/ NIsNaN(x) THEN NaN
    ELSE IF y[2] = 0 /\ x[2] = 0 THEN 0
    ELSE LET e  == IF y[2] = 0 THEN x[1]
                   ELSE IF x[2] = 0 THEN y[1]
                   ELSE IF x[1] < y[1] THEN x[1] ELSE y[1]
             ym == IF y[2] # 0 /\ y[1] = e THEN y[2] ELSE 0
             xm == IF x[2] # 0 /\ x[1] = e THEN x[2] ELSE 0
         IN  Arctan2Fix(ym, xm, Sgn(y[2]))

---------------------------------------------------------------------------
(* stereonet_math.py: sph2cart, cart2sph, _rotate *)

sph2cart(lon, lat) ==
    LET x == NMul(Cos(lat), Cos(lon))
        y == NMul(Cos(lat), Sin(lon))
        z == Sin(lat)
    IN  <<x, y, z>>

cart2sph(x, y, z) ==
    LET r   == NNorm(x, y, z)
        lat == Arcsin(NDiv(z, r))
        lon == Arctan2(y, x)
    IN  <<lon, lat>>

_rotate_x(x, y, z, theta) ==
    LET X == x
        Y == NAdd(NMul(y, Cos(theta)), NMul(z, Sin(theta)))
        Z == NAdd(NMul(NNeg(y), Sin(theta)), NMul(z, Cos(theta)))
    IN  <<X, Y, Z>>

\* _rotate(lon, lat, theta) with axis = 'x', one element; degrees in,
\* radians out
_rotate(lon, lat, theta) ==
    The({cart2sph(R[1], R[2], R[3]) :
            R \in {_rotate_x(c[1], c[2], c[3], np_radians(theta)) :
                      c \in {sph2cart(np_radians(lon), np_radians(lat))}}})


---------------------------------------------------------------------------
(* stereonet_math.py: pole *)

\* np.atleast_1d(obj): an ndarray is returned as it is (the same object),
\* anything else (a list, a number) is copied into a new array
atleast_1d(obj) == [alias |-> obj.kind = "ndarray", data |-> obj.data]

\* the dip array after  dip[mask] = 180 - dip[mask]  with mask = dip > 90
pole_dip(dip) ==
    [i \in 1..Len(dip) |-> IF dip[i] > 90 * Deg THEN 180 * Deg - dip[i]
                           ELSE dip[i]]

\* the strike array left as it is
pole_strike_unshifted(strike, dip) == strike

\* the strike array after  strike[mask] += 180
pole_strike(strike, dip) ==
    [i \in 1..Len(strike) |-> IF dip[i] > 90 * Deg THEN strike[i] + 180 * Deg
                              ELSE strike[i]]

\* the <<lon, lat>> pole returns for each element (strike, dip in degrees)
pole(strike, dip) ==
    LET d == pole_dip(dip)
        s == pole_strike(strike, dip)
    IN  [i \in 1..Len(d) |-> _rotate(-d[i], 0, s[i])]

\* the most measurements a call of pole is given
MaxArr == 2

StrikeVals == {0, 90 * Deg, 270 * Deg}
DipVals == {0, 45 * Deg, 90 * Deg, 135 * Deg, 180 * Deg}
ArgKinds == {"ndarray", "sequence"}

\* no call of pole is made
PoleIdle ==
    [pc |-> "idle",
     strikeObj |-> [kind |-> "sequence", data |-> <<>>],
     dipObj |-> [kind |-> "sequence", data |-> <<>>],
     lon |-> <<>>, lat |-> <<>>]

\* lon, lat = pole(strike, dip), the caller keeping its two argument objects
PoleCall ==
    /\ poleCall.pc = "call"
    /\ LET strike == atleast_1d(poleCall.strikeObj)
           dip    == atleast_1d(poleCall.dipObj)
           ll     == pole(strike.data, dip.data)
       IN  poleCall' =
             [pc |-> "returned",
              dipObj |-> IF dip.alias
                         THEN [poleCall.dipObj EXCEPT
                                 !.data = pole_dip(dip.data)]
                         ELSE poleCall.dipObj,
              strikeObj |-> IF strike.alias
                            THEN [poleCall.strikeObj EXCEPT
                                    !.data = pole_strike(strike.data, dip.data)]
                            ELSE poleCall.strikeObj,
              lon |-> [i \in 1..Len(ll) |-> ll[i][1]],
              lat |-> [i \in 1..Len(ll) |-> ll[i][2]]]
    /\ UNCHANGED <<cartCall, kmCall, dnCall, mathCall, dispCall,
                 anCall, parseCall, axesObj>>

---------------------------------------------------------------------------
(* cart2sph called on its own *)

\* the arguments of cart2sph are k / CartSteps for k in -CartSteps .. CartSteps
CartSteps == 2

CartVals == {TDiv(k * Scale, CartSteps) : k \in -CartSteps..CartSteps}

\* no call of cart2sph is made
CartIdle == [pc |-> "idle", xyz |-> <<0, 0, 0>>, lon |-> 0, lat |-> 0]

Cart2sphCall ==
    /\ cartCall.pc = "call"
    /\ LET ll == cart2sph(Fix(cartCall.xyz[1]), Fix(cartCall.xyz[2]),
                          Fix(cartCall.xyz[3]))
       IN  cartCall' = [cartCall EXCEPT !.pc = "returned",
                                        !.lon = ll[1], !.lat = ll[2]]
    /\ UNCHANGED <<poleCall, kmCall, dnCall, mathCall, dispCall,
                 anCall, parseCall, axesObj>>

---------------------------------------------------------------------------
(* stereonet_math.py: antipode, angular_distance *)

\* the point itself instead of its antipode
antipode_same_point(lon, lat) == <<lon, lat>>

antipode(lon, lat) ==
    The({cart2sph(NNeg(c[1]), NNeg(c[2]), NNeg(c[3])) :
            c \in {sph2cart(lon, lat)}})

\* the dot product of two cartesian triples, as plain fixed point
Dot(a, b) ==
    ToFix(NAdd(NAdd(NMul(a[1], b[1]), NMul(a[2], b[2])), NMul(a[3], b[3])))

\* np.isclose(a, b, rtol) for fixed-point a and b = +1 or -1, rtol = 1e-4
\* (the default atol = 1e-8 is below the resolution)
np_isclose(a, b) == a # NaN /\ Abs(a - b) <= Abs(b) \div 10^4

\* the angle without the fold
bidirectional_fold_none(angle, bidirectional) == angle

\* angle[mask] = np.pi - angle[mask] with mask = angle > np.pi / 2, when
\* bidirectional (NaN compares false)
bidirectional_fold(angle, bidirectional) ==
    IF bidirectional /\ angle # NaN /\ angle > PiFix \div 2
    THEN PiFix - angle ELSE angle

\* angular_distance(first, second, bidirectional) for one point first and
\* the sequence of points second (each <<lon, lat>> in radians): the sequence
\* of angles
angular_distance(first, second, bidirectional) ==
    LET fixed(anyNaN, dot, angle) ==
            IF anyNaN /\ np_isclose(dot, Scale) THEN 0
            ELSE IF anyNaN /\ np_isclose(dot, -Scale) THEN PiFix
            ELSE angle
    IN  The({The({The({Array([j \in 1..Len(second) |->
                                bidirectional_fold(
                                    fixed(anyNaN, dot[j], angle[j]),
                                    bidirectional)]) :
                          anyNaN \in {\E j \in 1..Len(second) :
                                          angle[j] = NaN}}) :
                     angle \in {Array([j \in 1..Len(second) |->
                                         Arccos(dot[j])])}}) :
                dot \in {Array([j \in 1..Len(second) |->
                                 Dot(xyz1, sph2cart(second[j][1],
                                                    second[j][2]))]) :
                           xyz1 \in {sph2cart(first[1], first[2])}}})

---------------------------------------------------------------------------
(* analysis.py: cov_eig *)

\* the NaN 3 x 3 matrix
NaNMatrix == << <<NaN, NaN, NaN>>, <<NaN, NaN, NaN>>, <<NaN, NaN, NaN>> >>

\* the 3 x 3 matrix with the entries f[i][j], each computed once
Mat3(f) ==
    << <<f[1][1], f[1][2], f[1][3]>>,
       <<f[2][1], f[2][2], f[2][3]>>,
       <<f[3][1], f[3][2], f[3][3]>> >>

MatHasNaN(M) == \E i, j \in 1..3 : M[i][j] = NaN

\* np.cov(xyz.T) for the sequence xyz of cartesian triples (plain fixed
\* point): the mean is removed and the sum divided by N - 1; with N < 2 the
\* divisor is 0 and every entry is 0 * inf = NaN
np_cov(xyz) ==
    LET N == Len(xyz)
        RECURSIVE Sum(_, _)
        Sum(f, i) == IF i = 0 THEN 0 ELSE f[i] + Sum(f, i - 1)
        mean == Array([j \in 1..3 |->
                          RoundDiv(Sum([i \in 1..N |-> xyz[i][j]], N), N)])
        dev(i, j) == xyz[i][j] - mean[j]
    IN  IF N < 2 THEN NaNMatrix
        ELSE Mat3([j \in 1..3 |-> [k \in 1..3 |->
                     RoundDiv(Sum([i \in 1..N |->
                                     MulT(dev(i, j), dev(i, k))], N),
                              N - 1)]])

MatMul(A, B) ==
    Mat3([i \in 1..3 |-> [j \in 1..3 |->
             MulT(A[i][1], B[1][j]) + MulT(A[i][2], B[2][j])
                 + MulT(A[i][3], B[3][j])]])

MaxAbs(M) ==
    LET es == {Abs(M[i][j]) : i, j \in 1..3}
    IN  CHOOSE m \in es : \A e \in es : e <= m

\* M scaled so that its largest entry is 1 (M # 0)
MatNormalize(M) ==
    LET m == MaxAbs(M)
    IN  Mat3([i \in 1..3 |-> [j \in 1..3 |-> DivT(M[i][j], m)]])

RECURSIVE MatPow(_, _)
\* M^(2^k), scaled
MatPow(M, k) ==
    IF k = 0 THEN M ELSE MatPow(MatNormalize(MatMul(M, M)), k - 1)

\* the column vecs[:, -1] of np.linalg.eigh(cov): a unit eigenvector of the
\* largest eigenvalue, found by powers of the matrix (cov is positive
\* semidefinite).  Its sign is the library's: sign = 1 makes its largest
\* component positive, sign = -1 negative.  Of the zero matrix the
\* eigenvectors are the unit vectors, the last one (0, 0, 1).
eigh_largest(cov, sign) ==
    IF MatHasNaN(cov) THEN <<NaN, NaN, NaN>>
    ELSE IF MaxAbs(cov) = 0 THEN <<0, 0, Scale>>
    ELSE LET P   == MatPow(MatNormalize(cov), 8)
             j   == CHOOSE c \in 1..3 :
                       /\ \A d \in 1..3 : P[d][d] <= P[c][c]
                       /\ \A d \in 1..(c - 1) : P[d][d] < P[c][c]
             sq(i) == WMul(Abs(P[i][j]), Abs(P[i][j]))
             len == WSqrt(WAdd(WAdd(sq(1), sq(2)), sq(3)))
         IN  <<sign * DivT(P[1][j], len),
               sign * DivT(P[2][j], len),
               sign * DivT(P[3][j], len)>>

\* the points alone, whatever bidirectional is
cov_eig_xyz_directed(pts, bidirectional) ==
    Array([i \in 1..Len(pts) |->
              The({<<ToFix(c[1]), ToFix(c[2]), ToFix(c[3])>> :
                      c \in {sph2cart(pts[i][1], pts[i][2])}})])

\* the cartesian triples cov_eig builds its covariance from: the points, and
\* after them their antipodes when bidirectional
cov_eig_xyz(pts, bidirectional) ==
    The({Array([i \in 1..Len(all) |->
                  The({<<ToFix(c[1]), ToFix(c[2]), ToFix(c[3])>> :
                          c \in {sph2cart(all[i][1], all[i][2])}})]) :
            all \in {IF bidirectional
                     THEN pts \o Array([i \in 1..Len(pts) |->
                                          antipode(pts[i][1], pts[i][2])])
                     ELSE pts}})

\* the covariance matrix of cov_eig(lon, lat, bidirectional)
cov_eig_cov(pts, bidirectional) == np_cov(cov_eig_xyz(pts, bidirectional))

---------------------------------------------------------------------------
(* analysis.py: kmeans *)

\* a tie goes to the last of the least elements
np_argmin_last(row) ==
    IF \E j \in 1..Len(row) : row[j] = NaN
    THEN CHOOSE j \in 1..Len(row) :
            row[j] = NaN /\ \A k \in 1..(j - 1) : row[k] # NaN
    ELSE CHOOSE j \in 1..Len(row) :
            /\ \A k \in 1..Len(row) : row[j] <= row[k]
            /\ \A k \in (j + 1)..Len(row) : row[j] < row[k]

\* np.argmin of a sequence: the first NaN if there is one, else the first
\* least element
np_argmin(row) ==
    IF \E j \in 1..Len(row) : row[j] = NaN
    THEN CHOOSE j \in 1..Len(row) :
            row[j] = NaN /\ \A k \in 1..(j - 1) : row[k] # NaN
    ELSE CHOOSE j \in 1..Len(row) :
            /\ \A k \in 1..Len(row) : row[j] <= row[k]
            /\ \A k \in 1..(j - 1) : row[j] < row[k]

\* one comparison of np.allclose(a, b, atol = atol), rtol = 1e-5 by default:
\* |a - b| <= atol + rtol * |b|, and never true of a NaN
np_allclose1(a, b, atol) ==
    a # NaN /\ b # NaN /\ Abs(a - b) - atol <= Abs(b) \div 10^5

\* np.allclose(centers, new_centers, atol = tolerance)
np_allclose(centers, new_centers, atol) ==
    \A i \in 1..Len(centers) : \A c \in 1..2 :
        np_allclose1(centers[i][c], new_centers[i][c], atol)

\* closest = dists.argmin(axis = 1): for each point the index of the center
\* at the least angular distance
kmeans_closest(points, centers, bidirectional) ==
    LET dists == Array([i \in 1..Len(centers) |->
                     Array(angular_distance(centers[i], points,
                                            bidirectional))])
    IN  [p \in 1..Len(points) |->
            np_argmin([i \in 1..Len(centers) |-> dists[i][p]])]

\* lon[mask], lat[mask] with mask = closest == i
kmeans_members(points, closest, i) ==
    SelectSeq([p \in 1..Len(points) |-> <<points[p], closest[p]>>],
              LAMBDA e : e[2] = i)

\* kmeans_cluster without the mask: every point, whatever its cluster
kmeans_cluster_unmasked(points, closest, i) == points

\* the points of cluster i
kmeans_cluster(points, closest, i) ==
    LET m == kmeans_members(points, closest, i)
    IN  Array([k \in 1..Len(m) |-> m[k][1]])

\* new_centers[i]: cart2sph of the largest eigenvector of cov_eig over the
\* points of cluster i
kmeans_new_center(points, closest, i, bidirectional, sign) ==
    The({cart2sph(Fix(v[1]), Fix(v[2]), Fix(v[3])) :
            v \in {eigh_largest(cov_eig_cov(kmeans_cluster(points, closest, i),
                                            bidirectional), sign)}})

\* the most measurements kmeans is given
KmMaxPts == 2

\* the planes kmeans is given, <<strike, dip>> in degrees
KmPlanes ==
    <<(<<0, 60 * Deg>>), (<<0, 62 * Deg>>), (<<90 * Deg, 20 * Deg>>),
      (<<90 * Deg, 40 * Deg>>)>>

\* the values of the num argument
KmNums == {1, 2}

\* the values of the tolerance argument, in units of 1 / AngScale
\* (the default is 1e-5)
KmTolerances == {10, 17450}

\* no call of kmeans is made
KmIdle ==
    [pc |-> "idle", points |-> <<>>, num |-> 0, bidirectional |-> TRUE,
     tolerance |-> 0, sign |-> 1, centers |-> <<>>, closest |-> <<>>,
     new_centers |-> <<>>]

\* Init: center_lon = np.random.choice(lon, num),
\*       center_lat = np.random.choice(lat, num)
KmPickCenters ==
    /\ kmCall.pc = "Init"
    /\ \E cl \in [1..kmCall.num -> 1..Len(kmCall.points)] :
       \E ct \in [1..kmCall.num -> 1..Len(kmCall.points)] :
          kmCall' = [kmCall EXCEPT
              !.pc = "Assign",
              !.centers = [i \in 1..kmCall.num |->
                              <<kmCall.points[cl[i]][1],
                                kmCall.points[ct[i]][2]>>]]
    /\ UNCHANGED <<poleCall, cartCall, dnCall, mathCall, dispCall,
                 anCall, parseCall, axesObj>>

\* Assign: dists and closest
KmAssign ==
    /\ kmCall.pc = "Assign"
    /\ kmCall' = [kmCall EXCEPT
           !.pc = "Reestimate",
           !.closest = kmeans_closest(kmCall.points, kmCall.centers,
                                      kmCall.bidirectional)]
    /\ UNCHANGED <<poleCall, cartCall, dnCall, mathCall, dispCall,
                 anCall, parseCall, axesObj>>

\* some cluster's covariance matrix is NaN (fewer than two vectors)
KmSomeCovNaN ==
    \E i \in 1..kmCall.num :
        MatHasNaN(cov_eig_cov(kmeans_cluster(kmCall.points, kmCall.closest, i),
                              kmCall.bidirectional))

\* Re-estimate: the new centers.  np.linalg.eigh of a NaN matrix gives NaN
\* eigenvectors in this step and raises LinAlgError in the next one,
\* whichever the LAPACK build does.
KmReestimate ==
    /\ kmCall.pc = "Reestimate"
    /\ kmCall' = [kmCall EXCEPT
           !.pc = "Test",
           !.new_centers = [i \in 1..kmCall.num |->
               kmeans_new_center(kmCall.points, kmCall.closest, i,
                                 kmCall.bidirectional, kmCall.sign)]]
    /\ UNCHANGED <<poleCall, cartCall, dnCall, mathCall, dispCall,
                 anCall, parseCall, axesObj>>

KmReestimateRaises ==
    /\ kmCall.pc = "Reestimate"
    /\ KmSomeCovNaN
    /\ kmCall' = [kmCall EXCEPT !.pc = "Raised"]
    /\ UNCHANGED <<poleCall, cartCall, dnCall, mathCall, dispCall,
                 anCall, parseCall, axesObj>>

\* the test that ends the loop: break and return centers, or
\* centers = new_centers and go round again
KmTest ==
    /\ kmCall.pc = "Test"
    /\ IF np_allclose(kmCall.centers, kmCall.new_centers, kmCall.tolerance)
       THEN kmCall' = [kmCall EXCEPT !.pc = "Converged"]
       ELSE kmCall' = [kmCall EXCEPT !.pc = "Assign",
                                     !.centers = kmCall.new_centers]
    /\ UNCHANGED <<poleCall, cartCall, dnCall, mathCall, dispCall,
                 anCall, parseCall, axesObj>>

---------------------------------------------------------------------------
(* contouring.py: the kernel functions.  Each takes the sequence cos_dist   *)
(* of one counter station and sigma, and returns <<count, units>>: the      *)
(* unsummed distribution and the normalization factor.                      *)

\* np.sqrt of a fixed-point value
Sqrt(v) == WSqrt(<<v, 0>>)

RECURSIVE Exp(_)
\* np.exp(x) for x <= 0: halved until small, then the series to x^4 / 24
Exp(x) ==
    IF x < -32 * Scale THEN 0
    ELSE IF x < -(Scale \div 16)
    THEN The({MulT(h, h) : h \in {Exp(TDiv(x, 2))}})
    ELSE LET x2 == MulT(x, x)
             x3 == MulT(x2, x)
             x4 == MulT(x3, x)
         IN  Scale + x + TDiv(x2, 2) + TDiv(x3, 6) + TDiv(x4, 24)

_kamb_radius(n, sigma) ==
    LET a == DivT(sigma * sigma * Scale, (n + sigma * sigma) * Scale)
    IN  Scale - a

_kamb_units(n, radius) == Sqrt(n * MulT(radius, Scale - radius))

_exponential_kamb(cos_dist, sigma) ==
    LET n     == Len(cos_dist)
        f     == 2 * (Scale + DivT(n * Scale, sigma * sigma * Scale))
        count == [j \in 1..n |-> Exp(MulT(f, cos_dist[j] - Scale))]
        units == Sqrt(DivT(n * (TDiv(f, 2) - Scale), MulT(f, f)))
    IN  <<Array(count), units>>

_linear_inverse_kamb(cos_dist, sigma) ==
    LET n      == Len(cos_dist)
        radius == _kamb_radius(n, sigma)
        f      == DivT(2 * Scale, Scale - radius)
        inside == SelectSeq(cos_dist, LAMBDA c : c >= radius)
        count  == [j \in 1..Len(inside) |-> MulT(f, inside[j] - radius)]
    IN  <<Array(count), _kamb_units(n, radius)>>

_square_inverse_kamb(cos_dist, sigma) ==
    LET n      == Len(cos_dist)
        radius == _kamb_radius(n, sigma)
        f      == DivT(3 * Scale, MulT(Scale - radius, Scale - radius))
        inside == SelectSeq(cos_dist, LAMBDA c : c >= radius)
        count  == [j \in 1..Len(inside) |->
                      MulT(f, MulT(inside[j] - radius, inside[j] - radius))]
    IN  <<Array(count), _kamb_units(n, radius)>>

_kamb_count(cos_dist, sigma) ==
    LET n     == Len(cos_dist)
        dist  == _kamb_radius(n, sigma)
        count == [j \in 1..n |-> IF cos_dist[j] >= dist THEN Scale ELSE 0]
    IN  <<Array(count), _kamb_units(n, dist)>>

\* radius = 0.01 of _schmidt_count and _fisher
CountRadius == Scale \div 100

\* _schmidt_count without the 0.5 / count.size that offsets the - 0.5 of
\* the loop
_schmidt_count_no_offset(cos_dist, sigma) ==
    LET n     == Len(cos_dist)
        count == [j \in 1..n |->
                     IF Scale - cos_dist[j] <= CountRadius THEN Scale ELSE 0]
    IN  <<Array(count), n * CountRadius>>

_schmidt_count(cos_dist, sigma) ==
    LET n     == Len(cos_dist)
        count == [j \in 1..n |->
                     DivT(Scale \div 2, n * Scale)
                     + (IF Scale - cos_dist[j] <= CountRadius THEN Scale ELSE 0)]
    IN  <<Array(count), n * CountRadius>>

\* the digitised curve of _fisher: (pole-grid separation) / (counting angle)
\* against the probability weighting
FisherX == <<
    3, 41951, 80086, 122036, 160171, 204025,
    244070, 282213, 324167, 362311, 404271, 442420,
    482483, 526361, 566429, 606504, 648479, 688562,
    730561, 770659, 808857, 852789, 892912, 933052,
    971313, 1011543, 1049858, 1090016, 1128244, 1168363,
    1210374, 1252370, 1288637, 1332531, 1372593, 1410746,
    1448904, 1488955, 1527101, 1567152, 1609108, 1645342,
    1687296, 1727341, 1998093 >>

FisherY == <<
    998425, 996784, 995149, 991934, 990299, 988655,
    985442, 979083, 974293, 967933, 959993, 950484,
    937823, 923581, 907769, 888809, 872995, 849309,
    820897, 789338, 754632, 712043, 667885, 614279,
    546502, 445651, 349528, 286472, 236019, 193436,
    158724, 131886, 109782, 87665, 75004, 63920,
    49687, 43324, 35390, 29028, 22663, 17881,
    13091, 9878, 3 >>

\* np.interp(v, FisherX, FisherY, right = 0): FisherY[1] left of the curve,
\* 0 right of it, and the straight line between the two neighbours within
np_interp(v) ==
    IF v < FisherX[1] THEN FisherY[1]
    ELSE IF v > FisherX[Len(FisherX)] THEN 0
    ELSE IF v = FisherX[Len(FisherX)] THEN FisherY[Len(FisherY)]
    ELSE LET k == CHOOSE i \in 1..(Len(FisherX) - 1) :
                      FisherX[i] <= v /\ v < FisherX[i + 1]
             slope == DivT(FisherY[k + 1] - FisherY[k],
                           FisherX[k + 1] - FisherX[k])
         IN  FisherY[k] + MulT(slope, v - FisherX[k])

_fisher(cos_dist, sigma) ==
    LET n     == Len(cos_dist)
        count == [j \in 1..n |->
                     DivT(Scale \div 2, n * Scale)
                     + np_interp(DivT(Scale - cos_dist[j], CountRadius))]
    IN  <<Array(count), n * CountRadius>>

\* the dispatch of density_grid on method
Methods ==
    {"linear_kamb", "square_kamb", "schmidt", "kamb", "exponential_kamb",
     "fisher"}

Kernel(method, cos_dist, sigma) ==
    CASE method = "linear_kamb"      -> _linear_inverse_kamb(cos_dist, sigma)
      [] method = "square_kamb"      -> _square_inverse_kamb(cos_dist, sigma)
      [] method = "schmidt"          -> _schmidt_count(cos_dist, sigma)
      [] method = "kamb"             -> _kamb_count(cos_dist, sigma)
      [] method = "exponential_kamb" -> _exponential_kamb(cos_dist, sigma)
      [] method = "fisher"           -> _fisher(cos_dist, sigma)

---------------------------------------------------------------------------
(* contouring.py: _count_points, density_grid *)

RECURSIVE SumTo(_, _)
\* s[1] + ... + s[n]
SumTo(s, n) == IF n = 0 THEN 0 ELSE s[n] + SumTo(s, n - 1)

\* np.sum of a sequence
np_sum(s) == SumTo(s, Len(s))

\* weights = np.asarray(weights, dtype = np.float); weights /= weights.mean()
\* for an array of weights (whole numbers with a positive sum): weight i
\* over the mean, each quotient rounded once as in floating point
normalize_weights(data) ==
    Array([i \in 1..Len(data) |->
              RoundDiv(data[i] * Len(data) * Scale, np_sum(data))])

\* the n values of np.mgrid[-bound : bound : n * 1j], bound = np.pi / 2
mgrid_axis(n) ==
    Array([k \in 1..n |-> -(PiFix \div 2) + RoundDiv((k - 1) * PiFix, n - 1)])

\* lon.ravel(), lat.ravel() of
\* lon, lat = np.mgrid[xmin : xmax : ncols * 1j, ymin : ymax : nrows * 1j]:
\* the arrays have shape (ncols, nrows) and are read row by row
mgrid_ravel(nrows, ncols) ==
    The({Array([f \in 1..(ncols * nrows) |->
                   <<xs[((f - 1) \div nrows) + 1], ys[((f - 1) % nrows) + 1]>>]) :
            xs \in {mgrid_axis(ncols)}, ys \in {mgrid_axis(nrows)}})

\* density *= weights; (density.sum() - 0.5) / scale   for the kernel's
\* result k = <<density, scale>>.  weights is the scalar 1 (kind "None") or
\* the normalized array wn.  The in-place product needs the array to have
\* one element or as many as density, else numpy raises ValueError.
weighted_total(k, kind, wn) ==
    LET density == k[1]
        scale   == k[2]
        fits    == kind = "None" \/ Len(wn) = 1 \/ Len(wn) = Len(density)
        w(j)    == IF kind = "None" THEN Scale
                   ELSE IF Len(wn) = 1 THEN wn[1] ELSE wn[j]
        product == [j \in 1..Len(density) |-> MulT(density[j], w(j))]
    IN  IF fits
        THEN [raised |-> FALSE,
              total  |-> DivT(np_sum(product) - Scale \div 2, scale)]
        ELSE [raised |-> TRUE, total |-> 0]

\* one turn of the loop over the counters, for the counter xyz
counter_total(xyz, xyz_points, method, sigma, kind, wn) ==
    The({weighted_total(k, kind, wn) :
            k \in {Kernel(method, cos_dist, sigma) :
                      cos_dist \in {Array([j \in 1..Len(xyz_points) |->
                                              Abs(Dot(xyz, xyz_points[j]))])}}})

\* a counter at (lon, lat): its total, and cart2sph of its vector
counter(lonlat, xyz_points, method, sigma, kind, wn) ==
    The({[at     |-> cart2sph(xyz[1], xyz[2], xyz[3]),
          result |-> counter_total(xyz, xyz_points, method, sigma, kind, wn)] :
            xyz \in {sph2cart(lonlat[1], lonlat[2])}})

\* item.shape = gridsize: the flat array read as nrows rows of ncols
reshape(flat, gridsize) ==
    [r \in 1..gridsize[1] |->
        [c \in 1..gridsize[2] |-> flat[(r - 1) * gridsize[2] + c]]]

\* clamp left out: the negative totals are kept
clamp_none(t) == t

\* totals[totals < 0] = 0
clamp(t) == IF t < 0 THEN 0 ELSE t

\* _count_points(lons, lats, func, sigma, gridsize, weights) for the points
\* <<lon, lat>>: [raised, lon, lat, z], raised when a turn of the loop raises
_count_points(points, method, sigma, gridsize, weights) ==
    The({[raised |-> \E f \in 1..Len(cells) : cells[f].result.raised,
          lon    |-> reshape([f \in 1..Len(cells) |-> cells[f].at[1]], gridsize),
          lat    |-> reshape([f \in 1..Len(cells) |-> cells[f].at[2]], gridsize),
          z      |-> reshape([f \in 1..Len(cells) |->
                                 clamp(cells[f].result.total)], gridsize)] :
            cells \in
              {Array([f \in 1..Len(counters) |->
                         counter(counters[f], xyz_points, method, sigma,
                                 weights.kind, wn)]) :
                  counters \in {mgrid_ravel(gridsize[1], gridsize[2])},
                  xyz_points \in {Array([j \in 1..Len(points) |->
                                     sph2cart(points[j][1], points[j][2])])},
                  wn \in {normalize_weights(weights.data)}}})

\* np.finfo(z.dtype).tiny: the smallest positive value
tiny == 1

\* gridsize = int(gridsize); gridsize = (gridsize, gridsize): an int is
\* given here as a tuple of one number
density_gridsize(gridsize) ==
    IF Len(gridsize) = 1 THEN <<gridsize[1], gridsize[1]>> ELSE gridsize

\* z[z == 0] = tiny unless method is 'schmidt' or 'kamb'
density_bump(method, z) ==
    [r \in 1..Len(z) |-> [c \in 1..Len(z[r]) |->
        IF method \notin {"schmidt", "kamb"} /\ z[r][c] = 0
        THEN tiny ELSE z[r][c]]]

\* density_grid(strike, dip, measurement = 'poles', method, sigma, gridsize,
\* weights): [raised, lon, lat, z]
density_grid(strike, dip, method, sigma, gridsize, weights) ==
    The({[r EXCEPT !.z = density_bump(method, r.z)] :
            r \in {_count_points(points, method, sigma,
                                 density_gridsize(gridsize), weights) :
                      points \in {pole(strike, dip)}}})

\* the most measurements density_grid is given
DnMaxPts == 2

\* the planes density_grid is given, <<strike, dip>> in degrees
DnPlanes == <<(<<0, 0>>), (<<0, 45 * Deg>>)>>

\* the values of a weight
DnWeightVals == {1, 3}

\* the values of sigma
DnSigmas == {1, 3}

\* the values of gridsize: an int, and tuples with nrows # ncols
DnGridsizes == {<<3>>, <<2, 3>>, <<3, 2>>}

\* the grids of the basic case, density_grid(0, 0, gridsize = ...)
DnBasicGridsizes == {<<5, 5>>, <<10, 10>>}

WeightsNone == [kind |-> "None", data |-> <<>>]

\* no call of density_grid is made
DnIdle ==
    [pc |-> "idle", strike |-> <<>>, dip |-> <<>>, method |-> "",
     sigma |-> 0, gridsize |-> <<>>, weights |-> WeightsNone,
     lon |-> <<>>, lat |-> <<>>, z |-> <<>>]

\* the call returns its three arrays, or the exception raised in
\* _count_points leaves it
DensityGridCall ==
    /\ dnCall.pc = "call"
    /\ \E r \in {density_grid(dnCall.strike, dnCall.dip, dnCall.method,
                              dnCall.sigma, dnCall.gridsize, dnCall.weights)} :
          dnCall' = IF r.raised
                    THEN [dnCall EXCEPT !.pc = "raised"]
                    ELSE [dnCall EXCEPT !.pc = "returned", !.lon = r.lon,
                                        !.lat = r.lat, !.z = r.z]
    /\ UNCHANGED <<poleCall, cartCall, kmCall, mathCall, dispCall,
                 anCall, parseCall, axesObj>>

---------------------------------------------------------------------------
(* stereonet_math.py: line, rake and the plunge/bearing conversions *)

\* line(plunge, bearing), one element: <<lon, lat>> in radians
line(plunge, bearing) == _rotate(0, 90 * Deg - plunge, bearing)

\* rake(strike, dip, rake_angle), one element: <<lon, lat>> in radians
rake(strike, dip, rake_angle) ==
    LET r == IF rake_angle < 0 THEN rake_angle + 180 * Deg ELSE rake_angle
    IN  _rotate(90 * Deg - dip, 90 * Deg - r, strike)

\* plunge_bearing2pole(plunge, bearing), one element: <<strike, dip>>
plunge_bearing2pole(plunge, bearing) ==
    LET strike == bearing + 90 * Deg
        dip    == 90 * Deg - plunge
    IN  <<IF strike >= 360 * Deg THEN strike - 360 * Deg ELSE strike, dip>>

\* A float of degrees is written <<degrees, side>> where the float next to a
\* number matters: side is 1 or -1 for the float next above or below the
\* number of degrees, and 0 for the number itself.

\* bearing[bearing < 0] += 360 for the float <<degrees, side>>: a float just
\* below 0 is made 360 by the addition, which rounds
wrap_negative(b) ==
    IF b[1] < 0 \/ (b[1] = 0 /\ b[2] < 0)
    THEN <<b[1] + 360 * Deg, IF b[1] = 0 THEN 0 ELSE b[2]>>
    ELSE b

\* pole2plunge_bearing(strike, dip), one element, for the float strike =
\* <<degrees, side>>: <<plunge, bearing>> with the float bearing
pole2plunge_bearing(strike, dip) ==
    LET bearing == <<strike[1] - 90 * Deg, strike[2]>>
        plunge  == 90 * Deg - dip
    IN  <<plunge, wrap_negative(bearing)>>

\* the 1e-15 that replaces a zero r, as a tiny value
REps == <<1, 16 * Scale>>

\* The float np.arctan2(z, y) where one of z, y is tiny against the other:
\* the angle lies off the axis by less than one rounding step, and the float
\* is the axis angle or the float next to it on that side.  The side is
\* -sgn(y) sgn(z) for a tiny y and sgn(y) sgn(z) for a tiny z; 0 when neither
\* is tiny against the other.
arctan2_side(z, y) ==
    IF NIsNaN(z) \/ NIsNaN(y) \/ z[2] = 0 \/ y[2] = 0 \/ z[1] = y[1] THEN 0
    ELSE IF y[1] > z[1] THEN -Sgn(y[2]) * Sgn(z[2])
    ELSE Sgn(y[2]) * Sgn(z[2])

\* the floats np.degrees(np.arctan2(z, y)) can be, as <<degrees, side>>.  Of
\* two zeros the model does not keep the signs, which decide between 0, pi
\* and -pi.
bearing_floats(z, y) ==
    IF NIsNaN(z) \/ NIsNaN(y) THEN {<<NaN, 0>>}
    ELSE IF z[2] = 0 /\ y[2] = 0
    THEN {<<0, 0>>, <<180 * Deg, 0>>, <<-180 * Deg, 0>>}
    ELSE {<<np_degrees(Arctan2(z, y)), e>> : e \in {0, arctan2_side(z, y)}}

\* geographic2plunge_bearing(lon, lat), one element (radians in): the set of
\* the <<plunge, bearing>> in degrees that the floats can give.  plunge < 0
\* is decided on the float, so a tiny negative x / r counts as upwards.
geographic2plunge_bearing(lon, lat) ==
    LET r(r0)      == IF r0[2] = 0 THEN REps ELSE r0
        upwards(q) == ~NIsNaN(q) /\ q[2] < 0
        flip(q, b) == IF upwards(q)
                      THEN wrap_negative(<<b[1] - 180 * Deg, b[2]>>) ELSE b
    IN  IF lon = NaN \/ lat = NaN THEN {<<NaN, NaN>>}
        ELSE UNION
          {UNION
             {UNION
                {{<<IF upwards(q) THEN -plunge ELSE plunge,
                    flip(q, wrap_negative(<<90 * Deg - t[1], -t[2]>>))[1]>> :
                     t \in bearing_floats(c[3], c[2])} :
                   plunge \in {np_degrees(Arcsin(q))}} :
                q \in {NDiv(c[1], r(NNorm(c[1], c[2], c[3])))}} :
             c \in {sph2cart(lon, lat)}}

\* geographic2pole with the plunge of the pole returned as the dip
geographic2pole_plunge_as_dip(lon, lat) ==
    {IF pb[2] = NaN THEN <<NaN, NaN>>
     ELSE <<IF pb[2] + 90 * Deg >= 360 * Deg THEN pb[2] - 270 * Deg
            ELSE pb[2] + 90 * Deg,
            pb[1]>> :
        pb \in geographic2plunge_bearing(lon, lat)}

\* geographic2pole(lon, lat), one element (radians in): the set of the
\* <<strike, dip>> in degrees that the floats can give
geographic2pole(lon, lat) ==
    {IF pb[2] = NaN THEN <<NaN, NaN>>
     ELSE <<IF pb[2] + 90 * Deg >= 360 * Deg THEN pb[2] - 270 * Deg
            ELSE pb[2] + 90 * Deg,
            90 * Deg - pb[1]>> :
        pb \in geographic2plunge_bearing(lon, lat)}

---------------------------------------------------------------------------
(* stereonet_math.py: fisher_stats *)

\* the value None
None == <<>>

\* the float inf (a positive number divided by zero)
Inf == 2^30

\* a / b where the quotient may leave the range of the fixed point: a
\* positive number over zero, or over a divisor below the resolution, is inf
DivInf(a, b) ==
    IF b = 0 \/ Abs(a) \div Abs(b) >= 1000 THEN Sgn(a) * Sgn(b + 1) * Inf
    ELSE DivT(a, b)

RECURSIVE PowT(_, _)
\* r ** k for a whole number k >= 0
PowT(r, k) == IF k = 0 THEN Scale ELSE MulT(r, PowT(r, k - 1))

RECURSIVE RootSearch(_, _, _, _)
RootSearch(v, k, lo, hi) ==
    IF lo >= hi THEN lo
    ELSE LET mid == (lo + hi + 1) \div 2
         IN  IF PowT(mid, k) <= v THEN RootSearch(v, k, mid, hi)
             ELSE RootSearch(v, k, lo, mid - 1)

\* v ** (1 / k) for v >= 1 and a whole number k >= 1; the root is at most
\* 1 + (v - 1) / k
RootT(v, k) ==
    IF k = 1 THEN v ELSE RootSearch(v, k, Scale, Scale + (v - Scale) \div k)

\* the sum and the mean over the points of the cartesian component j
xyz_sum(xyz, j) == SumTo([i \in 1..Len(xyz) |-> xyz[i][j]], Len(xyz))

\* np.linalg.norm and np.sqrt(np.sum(np.square(v))) of a plain triple
norm3(v) == ToFix(NNorm(Fix(v[1]), Fix(v[2]), Fix(v[3])))

\* kappa with num in the place of num - 1
fisher_kappa_biased(num, result_vect) ==
    DivInf(num * Scale, num * Scale - result_vect)

\* kappa = (num - 1) / (num - result_vect)
fisher_kappa(num, result_vect) ==
    DivInf((num - 1) * Scale, num * Scale - result_vect)

\* fisher_stats(lons, lats, conf) for the sequence pts of <<lon, lat>> (radians)
\* and a whole number conf of percent: <<mean_vec, <<r_value, angle, kappa>>>>
\* or <<None, None>>
fisher_stats(pts, conf) ==
    LET num         == Len(pts)
        xyz         == Array([i \in 1..num |->
                          The({<<ToFix(c[1]), ToFix(c[2]), ToFix(c[3])>> :
                                  c \in {sph2cart(pts[i][1], pts[i][2])}})])
        sum_of(a)   == <<xyz_sum(a, 1), xyz_sum(a, 2), xyz_sum(a, 3)>>
        mean_of(s)  == <<RoundDiv(s[1], num), RoundDiv(s[2], num),
                         RoundDiv(s[3], num)>>
        mean_vec(m) == cart2sph(Fix(m[1]), Fix(m[2]), Fix(m[3]))
        inv_p       == DivT(100 * Scale, (100 - conf) * Scale)
        grow        == RootT(inv_p, num - 1) - Scale
        angle(f1)   == IF f1 = Inf THEN NaN
                       ELSE np_degrees(Arccos(Scale - MulT(f1, grow)))
    IN  IF num > 1
        THEN The({The({<<mean_vec(mean), <<norm3(mean), angle(fract1),
                                           fisher_kappa(num, result_vect)>>>> :
                          mean \in {mean_of(vector_sum)},
                          fract1 \in {DivInf(num * Scale - result_vect,
                                             result_vect)}}) :
                     vector_sum \in {sum_of(xyz)},
                     result_vect \in {norm3(sum_of(xyz))}})
        ELSE <<None, None>>

---------------------------------------------------------------------------
(* stereonet_math.py: plane_intersection, project_onto_plane *)

\* np.cross(a, b, axis=0) of two cartesian triples
np_cross(a, b) ==
    <<NAdd(NMul(a[2], b[3]), NNeg(NMul(a[3], b[2]))),
      NAdd(NMul(a[3], b[1]), NNeg(NMul(a[1], b[3]))),
      NAdd(NMul(a[1], b[2]), NNeg(NMul(a[2], b[1])))>>

\* sph2cart(*pole(strike, dip)), one plane
pole_vector(strike, dip) ==
    The({sph2cart(ll[1], ll[2]) : ll \in {pole(<<strike>>, <<dip>>)[1]}})

\* sph2cart(*line(plunge, bearing)), one line
line_vector(plunge, bearing) ==
    The({sph2cart(ll[1], ll[2]) : ll \in {line(plunge, bearing)}})

\* plane_intersection(strike1, dip1, strike2, dip2), one pair of planes: the
\* set of the <<plunge, bearing>> that the floats can give
plane_intersection(strike1, dip1, strike2, dip2) ==
    UNION {geographic2plunge_bearing(ll[1], ll[2]) :
             ll \in {cart2sph(c[1], c[2], c[3]) :
                       c \in {np_cross(pole_vector(strike1, dip1),
                                       pole_vector(strike2, dip2))}}}

\* on_plane /= np.sqrt(np.sum(on_plane**2, axis=0))
normalized(v) ==
    The({<<NDiv(v[1], n), NDiv(v[2], n), NDiv(v[3], n)>> :
            n \in {NNorm(v[1], v[2], v[3])}})

\* rake[rake > 90] -= 180 and rake[rake < -90] += 180 (NaN compares false)
fold_rake(a) ==
    IF a = NaN THEN NaN
    ELSE LET b == IF a > 90 * Deg THEN a - 180 * Deg ELSE a
         IN  IF b < -90 * Deg THEN b + 180 * Deg ELSE b

\* The floats np.degrees(np.arccos(dot)) can be for the dot product of two
\* unit vectors.  The float dot differs from the number by a few rounding
\* steps: where the number is 1 or -1 the float can be beyond it, and its
\* arccos is NaN; where the number is 0 the angle can be on either side of 90.
rake_floats(dot) ==
    IF dot = NaN THEN {NaN}
    ELSE IF Abs(dot) >= Scale - 5
    THEN {NaN, IF dot > 0 THEN 0 ELSE 180 * Deg}
    ELSE IF Abs(dot) <= 5 THEN {90 * Deg - 1, 90 * Deg + 1}
    ELSE {np_degrees(Arccos(dot))}

\* project_onto_plane(strike, dip, plunge, bearing), one element: the set of
\* the rakes that the floats can give
project_onto_plane(strike, dip, plunge, bearing) ==
    LET feature      == line_vector(plunge, bearing)
        strike_vec   == line_vector(0, strike)
        dot(on_plane) == IF \E j \in 1..3 : NIsNaN(on_plane[j]) THEN NaN
                         ELSE Dot(on_plane, strike_vec)
    IN  UNION
          {UNION
             {{fold_rake(a) : a \in rake_floats(dot(on_plane))} :
                on_plane \in {normalized(np_cross(np_cross(norm, feature),
                                                  norm))}} :
             norm \in {pole_vector(strike, dip)}}

---------------------------------------------------------------------------
(* Calls of the conversions of stereonet_math.py, one element each *)

\* the most measurements a call of fisher_stats is given
FsMaxPts == 3

\* lines (plunge, bearing) on one side of the sphere, and confidence levels
FsLines ==
    <<(<<30 * Deg, 0>>), (<<40 * Deg, 20 * Deg>>), (<<50 * Deg, 340 * Deg>>),
      (<<45 * Deg, 200 * Deg>>)>>
FsConfs == {95, 50}

\* planes (strike, dip) every ten degrees, the grid of the round-trip tests
TenStrikes == {10 * k * Deg : k \in 0..35}
TenDips == {10 * k * Deg : k \in 0..9}

\* points (lon, lat) every thirty degrees, in degrees
GridLons == {30 * k * Deg : k \in -6..12}
GridLats == {30 * k * Deg : k \in -3..3}

\* plunges or dips, bearings or strikes in [0, 360), and the strikes as
\* floats: each of the numbers, and the float next below 90
QuarterPlunges == {0, 30 * Deg, 60 * Deg, 90 * Deg}
Azimuths == {45 * k * Deg : k \in 0..7} \cup {359 * Deg}
StrikeFloats == {<<a, 0>> : a \in Azimuths} \cup {<<90 * Deg, -1>>}

\* the lines (plunge, bearing) whose distances are taken
AdLines ==
    {<<30 * Deg, 270 * Deg>>, <<40 * Deg, 90 * Deg>>, <<0, 0>>,
     <<90 * Deg, 0>>, <<10 * Deg, 45 * Deg>>, <<10 * Deg, 225 * Deg>>}

\* the planes (strike, dip) that are intersected
PiStrikes == {0, 30 * Deg, 90 * Deg, 180 * Deg, 270 * Deg}
PiDips == {0, 15 * Deg, 80 * Deg, 90 * Deg}

\* the planes (strike, dip) that are projected onto, the rakes of the lines
\* in them, and lines (plunge, bearing) elsewhere
PopStrikes == {0, 5 * Deg, 45 * Deg, 90 * Deg, 135 * Deg, 315 * Deg}
PopDips == {0, 20 * Deg, 30 * Deg, 40 * Deg, 80 * Deg, 90 * Deg}
PopRakes ==
    {-80 * Deg, -20 * Deg, -10 * Deg, 0, 10 * Deg, 20 * Deg, 80 * Deg,
     90 * Deg}
PopLines == {<<90 * Deg, 0>>, <<20 * Deg, 100 * Deg>>, <<0, 270 * Deg>>}

\* no conversion is called
MathIdle == [pc |-> "idle", fn |-> "", src |-> <<>>, args |-> <<>>, out |-> <<>>]

\* the call mathCall of the function fn returns out
MathReturn(fn, outs) ==
    /\ mathCall.pc = "call"
    /\ mathCall.fn = fn
    /\ \E o \in outs : mathCall' = [mathCall EXCEPT !.pc = "returned", !.out = o]
    /\ UNCHANGED <<poleCall, cartCall, kmCall, dnCall, dispCall,
                 anCall, parseCall, axesObj>>

FisherStatsCall ==
    MathReturn("fisher_stats",
               {fisher_stats(mathCall.args[1], mathCall.args[2])})

Geographic2plungeBearingCall ==
    MathReturn("geographic2plunge_bearing",
               geographic2plunge_bearing(mathCall.args[1], mathCall.args[2]))

Geographic2poleCall ==
    MathReturn("geographic2pole",
               geographic2pole(mathCall.args[1], mathCall.args[2]))

PlungeBearing2poleCall ==
    MathReturn("plunge_bearing2pole",
               {plunge_bearing2pole(mathCall.args[1], mathCall.args[2])})

Pole2plungeBearingCall ==
    MathReturn("pole2plunge_bearing",
               {pole2plunge_bearing(mathCall.args[1], mathCall.args[2])})

AntipodeCall ==
    MathReturn("antipode", {antipode(mathCall.args[1], mathCall.args[2])})

AngularDistanceCall ==
    MathReturn("angular_distance",
               {angular_distance(mathCall.args[1], <<mathCall.args[2]>>,
                                 mathCall.args[3])[1]})

PlaneIntersectionCall ==
    MathReturn("plane_intersection",
               plane_intersection(mathCall.args[1], mathCall.args[2],
                                  mathCall.args[3], mathCall.args[4]))

ProjectOntoPlaneCall ==
    MathReturn("project_onto_plane",
               project_onto_plane(mathCall.args[1], mathCall.args[2],
                                  mathCall.args[3], mathCall.args[4]))

---------------------------------------------------------------------------
(* analysis.py, contouring.py: the measurement and method keywords *)

Measurements == {"poles", "lines", "rakes", "radians"}

\* the functions that take the measurement keyword
EntryPoints ==
    {"fit_girdle", "fit_pole", "eigenvectors", "find_mean_vector",
     "find_fisher_stats", "kmeans", "density_grid"}

\* the keywords a caller passes: the known ones and one that is not
DispMeasurements == Measurements \cup {"planes"}
DispMethods == Methods \cup {"gaussian"}

\* the caller's argument objects: one measurement each
DispFirsts == {0, 90 * Deg}
DispSeconds == {45 * Deg, 135 * Deg}
DispThirds == {10 * Deg}

\* the caller's strike and dip objects after pole(strike, dip)
pole_objects(strikeObj, dipObj) ==
    LET strike == atleast_1d(strikeObj)
        dip    == atleast_1d(dipObj)
    IN  <<IF strike.alias
          THEN [strikeObj EXCEPT !.data = pole_strike(strike.data, dip.data)]
          ELSE strikeObj,
          IF dip.alias
          THEN [dipObj EXCEPT !.data = pole_dip(dip.data)]
          ELSE dipObj>>

\* func(*data) of _convert_measurements for a known measurement:
\* [lonlat |-> the <<lon, lat>> of each element,
\*  data |-> the caller's objects after the call]
convert_func(measurement, data) ==
    LET a == data[1].data
        b == data[2].data
    IN  CASE measurement = "poles" ->
               [lonlat |-> pole(a, b),
                data |-> pole_objects(data[1], data[2])]
          [] measurement = "lines" ->
               [lonlat |-> [i \in 1..Len(a) |-> line(a[i], b[i])],
                data |-> data]
          [] measurement = "rakes" ->
               [lonlat |-> [i \in 1..Len(a) |->
                               rake(a[i], b[i], data[3].data[i])],
                data |-> data]
          [] measurement = "radians" ->
               [lonlat |-> [i \in 1..Len(a) |-> <<a[i], b[i]>>],
                data |-> data]

\* what an entry point calls after the conversion, in order
statistics(fn) ==
    CASE fn \in {"fit_girdle", "fit_pole"} ->
           <<"cov_eig", "cart2sph", "geographic2pole">>
      [] fn = "eigenvectors" ->
           <<"cov_eig", "cart2sph", "geographic2plunge_bearing">>
      [] fn = "find_mean_vector" ->
           <<"mean_vector", "geographic2plunge_bearing">>
      [] fn = "find_fisher_stats" ->
           <<"fisher_stats", "geographic2plunge_bearing">>
      [] fn = "kmeans" -> <<"angular_distance", "cov_eig", "cart2sph">>
      [] fn = "density_grid" -> <<"_count_points">>

\* no entry point is called
DispIdle ==
    [pc |-> "idle", fn |-> "", measurement |-> "", method |-> "",
     given |-> <<>>, data |-> <<>>, ran |-> <<>>, lonlat |-> <<>>,
     error |-> None]

\* the measurement lookup and the conversion: _convert_measurements, and
\* the same lines of density_grid
ConvertMeasurements ==
    /\ dispCall.pc = "call"
    /\ IF dispCall.measurement \notin Measurements
       THEN dispCall' = [dispCall EXCEPT !.pc = "raised", !.error = "KeyError"]
       ELSE LET c == convert_func(dispCall.measurement, dispCall.data)
            IN  dispCall' = [dispCall EXCEPT !.pc = "converted",
                                             !.data = c.data,
                                             !.lonlat = c.lonlat,
                                             !.ran = <<"convert">>]
    /\ UNCHANGED <<poleCall, cartCall, kmCall, dnCall, mathCall,
                 anCall, parseCall, axesObj>>

\* the rest of an entry point of analysis.py
Statistics ==
    /\ dispCall.pc = "converted"
    /\ dispCall.fn # "density_grid"
    /\ dispCall' = [dispCall EXCEPT !.pc = "returned",
                                    !.ran = @ \o statistics(dispCall.fn)]
    /\ UNCHANGED <<poleCall, cartCall, kmCall, dnCall, mathCall,
                 anCall, parseCall, axesObj>>

\* the rest of density_grid: the method lookup, then _count_points
DensityMethod ==
    /\ dispCall.pc = "converted"
    /\ dispCall.fn = "density_grid"
    /\ IF dispCall.method \notin Methods
       THEN dispCall' = [dispCall EXCEPT !.pc = "raised", !.error = "KeyError"]
       ELSE dispCall' = [dispCall EXCEPT !.pc = "returned",
                                         !.ran = @ \o statistics(dispCall.fn)]
    /\ UNCHANGED <<poleCall, cartCall, kmCall, dnCall, mathCall,
                 anCall, parseCall, axesObj>>

---------------------------------------------------------------------------
(* stereonet_axes.py: the rotation of a StereonetAxes *)

\* the rotations supplied, in degrees clockwise from North
Rotations ==
    {0, 30 * Deg, 45 * Deg, 90 * Deg, 180 * Deg, 270 * Deg, 360 * Deg,
     -30 * Deg, -90 * Deg}

\* no axes has been made
AxesIdle ==
    [pc |-> "none", _rotation |-> 0, supplied |-> 0, by |-> "", got |-> None]

\* StereonetAxes(rotation = r); without the keyword rotation is 0:
\* self._rotation = -np.radians(kwargs.pop('rotation', 0))
StereonetAxes(rotation) ==
    [pc |-> "made", _rotation |-> -np_radians(rotation),
     supplied |-> rotation, by |-> "__init__", got |-> None]

\* ax.set_rotation(rotation): self._rotation = np.radians(rotation); the
\* transforms it invalidates hold no state of the model
set_rotation ==
    /\ axesObj.pc # "none"
    /\ \E rotation \in Rotations :
         axesObj' = [axesObj EXCEPT !.pc = "set",
                              !._rotation = np_radians(rotation),
                              !.supplied = rotation,
                              !.by = "set_rotation"]
    /\ UNCHANGED <<poleCall, cartCall, kmCall, dnCall, mathCall, dispCall,
                   anCall, parseCall>>

\* ax.get_rotation(): return np.degrees(self._rotation)
get_rotation ==
    /\ axesObj.pc # "none"
    /\ axesObj' = [axesObj EXCEPT !.pc = "got",
                               !.got = np_degrees(axesObj._rotation)]
    /\ UNCHANGED <<poleCall, cartCall, kmCall, dnCall, mathCall, dispCall,
                   anCall, parseCall>>

---------------------------------------------------------------------------
(* analysis.py: find_fisher_stats *)

\* the one measurement is handed back as (None, None)
find_fisher_stats_sentinel(pts, conf) ==
    UNION {IF fs[1] = None
           THEN {[pc |-> "returned", out |-> fs, error |-> None]}
           ELSE {[pc |-> "returned", out |-> <<pb, fs[2]>>, error |-> None] :
                    pb \in geographic2plunge_bearing(fs[1][1], fs[1][2])} :
             fs \in {fisher_stats(pts, conf)}}

\* find_fisher_stats(plunge, bearing, conf = conf) after the conversion of
\* the measurements to pts: the set of outcomes, each the value returned
\* <<mean_vector, stats>> or the exception raised, as a record [pc, out,
\* error].  The call geographic2plunge_bearing(*center) unpacks center, and
\* the center None of one measurement cannot be unpacked: TypeError.
find_fisher_stats(pts, conf) ==
    UNION {IF fs[1] = None
           THEN {[pc |-> "raised", out |-> <<>>, error |-> "TypeError"]}
           ELSE {[pc |-> "returned", out |-> <<pb, fs[2]>>, error |-> None] :
                    pb \in geographic2plunge_bearing(fs[1][1], fs[1][2])} :
             fs \in {fisher_stats(pts, conf)}}

---------------------------------------------------------------------------
(* Calls of the entry points of analysis.py *)

\* the signs np.linalg.eigh may give the three eigenvectors it returns
EighSigns == {<<1, 1, 1>>, <<-1, 1, -1>>}

AnIdle ==
    [pc |-> "idle", fn |-> "", src |-> <<>>, measurement |-> "",
     points |-> <<>>, later |-> <<>>, bidirectional |-> TRUE,
     signs |-> <<1, 1, 1>>, conf |-> 0, out |-> <<>>, error |-> None]

\* the call anCall of the entry point fn returns or raises one of outs; the
\* caller then makes its next call, on the next measurements of later, where
\* the library gives the eigenvectors the signs s
AnReturn(fn, outs) ==
    /\ anCall.pc = "call"
    /\ anCall.fn = fn
    /\ \E o \in outs, s \in EighSigns :
         anCall' =
            IF o.pc = "raised"
            THEN [anCall EXCEPT !.pc = "raised", !.error = o.error]
            ELSE IF anCall.later = <<>>
            THEN [anCall EXCEPT !.pc = "returned",
                                !.out = Append(anCall.out, o.out)]
            ELSE [anCall EXCEPT !.points = Head(anCall.later),
                                !.later = Tail(anCall.later),
                                !.signs = s,
                                !.out = Append(anCall.out, o.out)]
    /\ UNCHANGED <<poleCall, cartCall, kmCall, dnCall, mathCall, dispCall,
                   parseCall, axesObj>>

FindFisherStatsCall ==
    AnReturn("find_fisher_stats",
             find_fisher_stats(anCall.points, anCall.conf))

---------------------------------------------------------------------------
(* utilities.py: the strings.  A string is the sequence of its characters; *)
(* a number parsed from a string is a number of degrees, in units of       *)
(* 1 / Deg.                                                                *)

\* what a function call comes to: the value returned or the exception raised
Returns(v) == [pc |-> "returned", out |-> v, error |-> None]
Raises(e) == [pc |-> "raised", out |-> <<>>, error |-> e]

DigitChars == <<"0", "1", "2", "3", "4", "5", "6", "7", "8", "9">>

IsDigit(c) == \E k \in 1..10 : DigitChars[k] = c

\* str.isalpha of one character
isalpha(c) == c \in {"N", "E", "S", "W", "n", "e", "s", "w", "A", "x"}

\* the characters s[a], ..., s[b] (counted from 1), none if a > b
Slice(s, a, b) == [k \in 1..(IF b < a THEN 0 ELSE b - a + 1) |-> s[a + k - 1]]

\* str.strip: the string without the spaces at its ends
strip(s) ==
    IF \A k \in 1..Len(s) : s[k] = " " THEN <<>>
    ELSE Slice(s, CHOOSE a \in 1..Len(s) :
                     s[a] # " " /\ \A k \in 1..(a - 1) : s[k] = " ",
                  CHOOSE b \in 1..Len(s) :
                     s[b] # " " /\ \A k \in (b + 1)..Len(s) : s[k] = " ")

\* the number written by the digits ds
RECURSIVE DigitsValue(_)
DigitsValue(ds) ==
    IF ds = <<>> THEN 0
    ELSE 10 * DigitsValue(Slice(ds, 1, Len(ds) - 1))
         + (CHOOSE v \in 0..9 : DigitChars[v + 1] = ds[Len(ds)])

\* float(s) for a decimal literal: spaces at the ends, a sign, digits with at
\* most one point and at most six digits after it.  <<value>>, or None where
\* float raises ValueError (the other literals of float, such as 1e5, inf and
\* nan, are not among the strings of the model)
float(s) ==
    LET t      == strip(s)
        signed == t # <<>> /\ t[1] \in {"-", "+"}
        body   == IF signed THEN Tail(t) ELSE t
        points == {k \in 1..Len(body) : body[k] = "."}
        whole  == IF points = {} THEN body
                  ELSE Slice(body, 1, (CHOOSE k \in points : TRUE) - 1)
        frac   == IF points = {} THEN <<>>
                  ELSE Slice(body, (CHOOSE k \in points : TRUE) + 1, Len(body))
        value  == DigitsValue(whole) * Deg
                    + (DigitsValue(frac) * Deg) \div (10 ^ Len(frac))
    IN  IF /\ Cardinality(points) <= 1
           /\ Len(whole) + Len(frac) >= 1
           /\ Len(frac) <= 6
           /\ \A k \in 1..Len(whole) : IsDigit(whole[k])
           /\ \A k \in 1..Len(frac) : IsDigit(frac[k])
        THEN <<IF signed /\ t[1] = "-" THEN -value ELSE value>>
        ELSE None

\* split_trailing_letters(item): the number before the first of the letters
\* N, E, S, W (in either case) and the string from that letter on, or the
\* number and None; float raises ValueError
split_trailing_letters(item) ==
    LET found == {k \in 1..Len(item) :
                     item[k] \in {"N", "E", "S", "W", "n", "e", "s", "w"}}
        start == CHOOSE k \in found : \A j \in found : k <= j
        text  == IF found = {} THEN item ELSE Slice(item, 1, start - 1)
    IN  IF float(text) = None THEN Raises("ValueError")
        ELSE Returns(<<float(text)[1],
                       IF found = {} THEN None
                       ELSE Slice(item, start, Len(item))>>)

---------------------------------------------------------------------------
(* utilities.py: the parsers.  An azimuth is a float <<degrees, side>>; a  *)
(* parser comes to a set of outcomes, one for each float its arithmetic    *)
(* can give.                                                               *)

\* the dictionary azimuth = {'N':0, 'S':180, 'E':90, 'W':270}
azimuth_of == [N |-> 0, S |-> 180 * Deg, E |-> 90 * Deg, W |-> 270 * Deg]

\* circmean([a, b]) for two numbers of degrees: the floats
\* np.degrees(np.arctan2(y.mean(), x.mean()))
circmean(a, b) ==
    UNION {bearing_floats(NDiv(NAdd(Sin(ra), Sin(rb)), Fix(2 * Scale)),
                          NDiv(NAdd(Cos(ra), Cos(rb)), Fix(2 * Scale))) :
              ra \in {np_radians(a)}, rb \in {np_radians(b)}}

\* quadrantletter_to_azimuth(letters): azi = azimuth[letters[-1]], then
\* for letter in letters[1::-1] (the second letter, then the first; of one
\* letter the letter itself): azi = circmean([azi, azimuth[letter]]).  A
\* character that is no key of the dictionary raises KeyError.
quadrantletter_to_azimuth(letters) ==
    LET l     == strip(letters)
        loop  == IF Len(l) >= 2 THEN <<l[2], l[1]>> ELSE l
        keyed == {l[Len(l)]} \cup {loop[k] : k \in 1..Len(loop)}
    IN  IF l = <<>> THEN {Raises("IndexError")}
        ELSE IF ~(keyed \subseteq DOMAIN azimuth_of) THEN {Raises("KeyError")}
        ELSE UNION
          {IF Len(loop) = 1 THEN {Returns(a1)}
           ELSE {Returns(a2) : a2 \in circmean(a1[1], azimuth_of[loop[2]])} :
             a1 \in circmean(azimuth_of[l[Len(l)]], azimuth_of[loop[1]])}

\* _azimuth2vec(azi) for a number of degrees
_azimuth2vec(azi) ==
    The({<<Cos(r), Sin(r)>> : r \in {np_radians(azi)}})

\* a dot or cross product of unit vectors this small is decided by the
\* rounding of the floats
ProductNoise == 10

\* the test dot < 0 answers the other way
opposite_end_same(azimuth, quadrant) ==
    UNION {IF q.pc = "raised" THEN {q}
           ELSE UNION {IF dot[1] > 0 \/ Abs(dot[2]) <= ProductNoise
                       THEN {Returns(TRUE), Returns(FALSE)}
                       ELSE {Returns(dot[2] > 0)} :
                         dot \in {The({NAdd(NMul(u[1], v[1]), NMul(u[2], v[2])) :
                                          u \in {_azimuth2vec(q.out[1])},
                                          v \in {_azimuth2vec(azimuth)}})}} :
             q \in quadrantletter_to_azimuth(quadrant)}

\* opposite_end(azimuth, quadrant): np.dot of the two direction vectors is
\* negative.  For perpendicular directions the floats decide.
opposite_end(azimuth, quadrant) ==
    UNION {IF q.pc = "raised" THEN {q}
           ELSE UNION {IF dot[1] > 0 \/ Abs(dot[2]) <= ProductNoise
                       THEN {Returns(TRUE), Returns(FALSE)}
                       ELSE {Returns(dot[2] < 0)} :
                         dot \in {The({NAdd(NMul(u[1], v[1]), NMul(u[2], v[2])) :
                                          u \in {_azimuth2vec(q.out[1])},
                                          v \in {_azimuth2vec(azimuth)}})}} :
             q \in quadrantletter_to_azimuth(quadrant)}

\* str.upper of one character
upper(c) ==
    IF c = "n" THEN "N" ELSE IF c = "e" THEN "E" ELSE IF c = "s" THEN "S"
    ELSE IF c = "w" THEN "W" ELSE IF c = "x" THEN "X" ELSE c

\* rotation_direction(first, second): np.cross of the two direction vectors
rotation_direction(first, second) ==
    The({ToFix(NAdd(NMul(u[1], v[2]), NNeg(NMul(u[2], v[1])))) :
            u \in {_azimuth2vec(first)}, v \in {_azimuth2vec(second)}})

\* the float azi is below zero, and above the number c
FloatNegative(azi) == azi[1] < 0 \/ (azi[1] = 0 /\ azi[2] < 0)
FloatAbove(azi, c) == azi[1] > c \/ (azi[1] = c /\ azi[2] > 0)

\* the azimuth is returned as it is, without the wrap into 0..360
wrap_never(azi) == azi

\* if azi < 0: azi += 360 / elif azi > 360: azi -= 360
wrap_once(azi) ==
    IF FloatNegative(azi) THEN wrap_negative(azi)
    ELSE IF FloatAbove(azi, 360 * Deg) THEN <<azi[1] - 360 * Deg, azi[2]>>
    ELSE azi

\* parse_quadrant_measurement(quad_azimuth)
parse_quadrant_measurement(quad_azimuth) ==
    LET q     == strip(quad_azimuth)
        angle == float(Slice(q, 2, Len(q) - 1))
    IN  IF q = <<>> THEN {Raises("IndexError")}
        ELSE UNION
          {UNION
             {IF first.pc = "raised" \/ sec.pc = "raised"
              THEN {Raises("ValueError")}
              ELSE IF angle = None THEN {Raises("ValueError")}
              ELSE UNION
                {IF Abs(direc) < 9 * (Scale \div 10)
                 THEN {Raises("ValueError")}
                 ELSE {Returns(wrap_once(<<first.out[1] + MulT(direc, angle[1]),
                                           first.out[2]>>))} :
                   direc \in {rotation_direction(first.out[1], sec.out[1])}} :
                sec \in quadrantletter_to_azimuth(<<upper(q[Len(q)])>>)} :
             first \in quadrantletter_to_azimuth(<<upper(q[1])>>)}

\* parse_azimuth(azimuth): the number, or the quadrant measurement
parse_azimuth(azimuth) ==
    IF float(azimuth) # None THEN {Returns(<<float(azimuth)[1], 0>>)}
    ELSE IF azimuth = <<>> THEN {Raises("IndexError")}
    ELSE IF ~isalpha(azimuth[1]) THEN {Raises("ValueError")}
    ELSE parse_quadrant_measurement(azimuth)

\* if strike > 360: strike -= 360 (and the same of a bearing)
wrap_above(azi) ==
    IF FloatAbove(azi, 360 * Deg) THEN <<azi[1] - 360 * Deg, azi[2]>> ELSE azi

\* the float azi + 180
opposite(azi) == <<azi[1] + 180 * Deg, azi[2]>>

\* parse_strike_dip(strike, dip): <<strike, dip>>
parse_strike_dip(strike, dip) ==
    UNION
      {IF s.pc = "raised" THEN {s}
       ELSE UNION
         {IF d.pc = "raised" THEN {d}
          ELSE IF d.out[2] = None
          THEN {Returns(<<wrap_above(s.out), d.out[1]>>)}
          ELSE {IF o.pc = "raised" THEN o
                ELSE Returns(<<wrap_above(IF o.out THEN opposite(s.out)
                                          ELSE s.out), d.out[1]>>) :
                  o \in opposite_end(s.out[1] + 90 * Deg, d.out[2])} :
            d \in {split_trailing_letters(dip)}} :
         s \in parse_azimuth(strike)}

\* parse_rake(strike, dip, rake) for the rake string rake_angle:
\* <<strike, dip, rake>>
parse_rake(strike, dip, rake_angle) ==
    LET fold(r) == IF r < 0 THEN r + 180 * Deg
                   ELSE IF r > 180 * Deg THEN r - 180 * Deg ELSE r
    IN  UNION
          {IF sd.pc = "raised" THEN {sd}
           ELSE UNION
             {IF r.pc = "raised" THEN {r}
              ELSE IF r.out[2] = None
              THEN {Returns(<<sd.out[1], sd.out[2], fold(r.out[1])>>)}
              ELSE {IF o.pc = "raised" THEN o
                    ELSE Returns(<<sd.out[1], sd.out[2],
                                   fold(IF o.out THEN -r.out[1]
                                        ELSE r.out[1])>>) :
                      o \in opposite_end(sd.out[1][1], r.out[2])} :
                r \in {split_trailing_letters(rake_angle)}} :
             sd \in parse_strike_dip(strike, dip)}

\* the end of parse_plunge_bearing: the two folds of the plunge, each with a
\* switch of the bearing, and the wrap of the bearing
parse_plunge_bearing_folds(plunge, bearing) ==
    LET b1 == IF plunge < 0 THEN opposite(bearing) ELSE bearing
        p1 == IF plunge < 0 THEN -plunge ELSE plunge
        b2 == IF p1 > 90 * Deg THEN opposite(b1) ELSE b1
        p2 == IF p1 > 90 * Deg THEN 180 * Deg - p1 ELSE p1
    IN  <<p2, wrap_above(b2)>>

\* parse_plunge_bearing(plunge, bearing): <<plunge, bearing>>
parse_plunge_bearing(plunge, bearing) ==
    UNION
      {IF b.pc = "raised" THEN {b}
       ELSE UNION
         {IF p.pc = "raised" THEN {p}
          ELSE IF p.out[2] = None
          THEN {Returns(parse_plunge_bearing_folds(p.out[1], b.out))}
          ELSE {IF o.pc = "raised" THEN o
                ELSE Returns(parse_plunge_bearing_folds(
                                 p.out[1],
                                 IF o.out THEN opposite(b.out) ELSE b.out)) :
                  o \in opposite_end(b.out[1], p.out[2])} :
            p \in {split_trailing_letters(plunge)}} :
         b \in parse_azimuth(bearing)}

---------------------------------------------------------------------------
(* Calls of the parsers of utilities.py *)

\* the cardinal letters and a letter that is none; the angles written
\* between two letters, each with the number of degrees it stands for
QuadLetters == {"N", "E", "S", "W", "A"}
QuadAngles ==
    {<<<<"0">>, 0>>, <<<<"1", "0">>, 10 * Deg>>,
     <<<<"3", "0">>, 30 * Deg>>, <<<<"8", "0">>, 80 * Deg>>,
     <<<<"9", "0">>, 90 * Deg>>, <<<<" ", "1", "0", " ">>, 10 * Deg>>,
     <<<<"3", "2", ".", "5">>, 325 * (Deg \div 10)>>}

\* strikes and bearings as they are written, each with the azimuth it
\* stands for (NaN: none)
ParseStrikes ==
    {<<<<"N", "3", "0", "E">>, 30 * Deg>>,
     <<<<"E", "1", "0", "N">>, 80 * Deg>>,
     <<<<"2", "1", "0">>, 210 * Deg>>, <<<<"3", "5", "0">>, 350 * Deg>>,
     <<<<"2", "8", "0">>, 280 * Deg>>, <<<<"1", "8", "0">>, 180 * Deg>>,
     <<<<"0">>, 0>>, <<<<"3", "0">>, 30 * Deg>>,
     <<<<"S", "0", "W">>, 180 * Deg>>, <<<<"3", "0", "N", "W">>, NaN>>}

\* dips as they are written, each with its angle and the azimuth of its
\* direction letters (NaN: no letters)
ParseDips ==
    {<<<<"4", "5", "N", "W">>, 45 * Deg, 315 * Deg>>,
     <<<<"4", "5">>, 45 * Deg, NaN>>,
     <<<<"2", "0", "N", "W">>, 20 * Deg, 315 * Deg>>,
     <<<<"4", "0", "W">>, 40 * Deg, 270 * Deg>>,
     <<<<"3", "0", "S", "W">>, 30 * Deg, 225 * Deg>>,
     <<<<"3", "0", " ", "S", "W">>, 30 * Deg, 225 * Deg>>,
     <<<<"4", "5", "E">>, 45 * Deg, 90 * Deg>>,
     <<<<"4", "5", "n", "w">>, 45 * Deg, 315 * Deg>>}

\* rakes and plunges as they are written, each with its angle and the
\* azimuth of its direction letters
ParseRakes ==
    {<<<<"1", "0", "N", "E">>, 10 * Deg, 45 * Deg>>,
     <<<<"1", "0", "S", "W">>, 10 * Deg, 225 * Deg>>,
     <<<<"1", "0">>, 10 * Deg, NaN>>,
     <<<<"-", "1", "0">>, -10 * Deg, NaN>>,
     <<<<"1", "7", "0">>, 170 * Deg, NaN>>,
     <<<<"8", "0", "E">>, 80 * Deg, 90 * Deg>>,
     <<<<"8", "0", "W">>, 80 * Deg, 270 * Deg>>,
     <<<<"-", "8", "0">>, -80 * Deg, NaN>>,
     <<<<"4", "5", "N">>, 45 * Deg, 0>>,
     <<<<"4", "5", "S">>, 45 * Deg, 180 * Deg>>, <<<<"0">>, 0, NaN>>,
     <<<<"1", "8", "0">>, 180 * Deg, NaN>>,
     <<<<"-", "1", "8", "0">>, -180 * Deg, NaN>>,
     <<<<"1", "8", "0", "N", "E">>, 180 * Deg, 45 * Deg>>}
ParsePlunges ==
    {<<<<"1", "0", "N", "E">>, 10 * Deg, 45 * Deg>>,
     <<<<"1", "0", "S", "W">>, 10 * Deg, 225 * Deg>>,
     <<<<"1", "0">>, 10 * Deg, NaN>>,
     <<<<"-", "1", "0">>, -10 * Deg, NaN>>,
     <<<<"1", "7", "0">>, 170 * Deg, NaN>>,
     <<<<"-", "1", "7", "0">>, -170 * Deg, NaN>>, <<<<"0">>, 0, NaN>>,
     <<<<"9", "0">>, 90 * Deg, NaN>>,
     <<<<"-", "1", "0", "0", "N", "E">>, -100 * Deg, 45 * Deg>>,
     <<<<"1", "0", "0", "S", "W">>, 100 * Deg, 225 * Deg>>,
     <<<<"3", "0", "N", "W">>, 30 * Deg, 315 * Deg>>}

\* no parser has been called
ParseIdle ==
    [pc |-> "idle", fn |-> "", src |-> <<>>, args |-> <<>>, out |-> <<>>,
     error |-> None]

\* the call parseCall of the parser fn returns or raises one of outs
ParseReturn(fn, outs) ==
    /\ parseCall.pc = "call"
    /\ parseCall.fn = fn
    /\ \E o \in outs :
         parseCall' = [parseCall EXCEPT !.pc = o.pc, !.out = o.out,
                                        !.error = o.error]
    /\ UNCHANGED <<poleCall, cartCall, kmCall, dnCall, mathCall, dispCall,
                   anCall, axesObj>>

ParseQuadrantMeasurementCall ==
    ParseReturn("parse_quadrant_measurement",
                parse_quadrant_measurement(parseCall.args[1]))

ParseStrikeDipCall ==
    ParseReturn("parse_strike_dip",
                parse_strike_dip(parseCall.args[1], parseCall.args[2]))

ParseRakeCall ==
    ParseReturn("parse_rake",
                parse_rake(parseCall.args[1], parseCall.args[2],
                           parseCall.args[3]))

ParsePlungeBearingCall ==
    ParseReturn("parse_plunge_bearing",
                parse_plunge_bearing(parseCall.args[1], parseCall.args[2]))

---------------------------------------------------------------------------
(* analysis.py: np.linalg.eigh of the covariance matrix, cov_eig and the   *)
(* entry points built on it                                                *)

\* the product M v of a matrix and a plain triple
mat_vec(M, v) ==
    <<MulT(M[1][1], v[1]) + MulT(M[1][2], v[2]) + MulT(M[1][3], v[3]),
      MulT(M[2][1], v[1]) + MulT(M[2][2], v[2]) + MulT(M[2][3], v[3]),
      MulT(M[3][1], v[1]) + MulT(M[3][2], v[2]) + MulT(M[3][3], v[3])>>

\* the quadratic form v' M v
quad_form(M, v) ==
    The({MulT(v[1], r[1]) + MulT(v[2], r[2]) + MulT(v[3], r[3]) :
            r \in {mat_vec(M, v)}})

\* v / |v| for a plain triple v # 0
unit3(v) ==
    The({<<DivT(v[1], len), DivT(v[2], len), DivT(v[3], len)>> :
            len \in {WSqrt(WAdd(WAdd(WMul(Abs(v[1]), Abs(v[1])),
                                     WMul(Abs(v[2]), Abs(v[2]))),
                                WMul(Abs(v[3]), Abs(v[3]))))}})

\* the cross product of two plain triples
cross3(a, b) ==
    <<MulT(a[2], b[3]) - MulT(a[3], b[2]),
      MulT(a[3], b[1]) - MulT(a[1], b[3]),
      MulT(a[1], b[2]) - MulT(a[2], b[1])>>

\* a unit eigenvector of the largest eigenvalue of the positive semidefinite
\* matrix M # 0, by powers of M: the column of the power with the largest
\* diagonal entry, that entry positive
dominant(M) ==
    The({The({unit3(<<P[1][j], P[2][j], P[3][j]>>) :
                 j \in {CHOOSE c \in 1..3 :
                          /\ \A d \in 1..3 : P[d][d] <= P[c][c]
                          /\ \A d \in 1..(c - 1) : P[d][d] < P[c][c]}}) :
            P \in {MatPow(N, 8) : N \in {MatNormalize(A) : A \in {M}}}})

\* what is left of cov for the other eigenvectors once the largest one, v3
\* with the eigenvalue w3, is found: trace * I - cov with v3 taken out, whose
\* largest eigenvalue belongs to the smallest of cov
eigh_rest(cov, v3, w3) ==
    The({Mat3([i \in 1..3 |-> [j \in 1..3 |->
                 (IF i = j THEN t ELSE 0) - cov[i][j]
                    - MulT(t - w3, MulT(v3[i], v3[j]))]]) :
            t \in {cov[1][1] + cov[2][2] + cov[3][3]}})

\* np.linalg.eigh(cov) of a covariance matrix without NaN: <<w, v>> with the
\* eigenvalues w ascending and the column v[.][i] a unit eigenvector of
\* w[i].  The largest eigenvector is found by powers of cov, the smallest by
\* powers of eigh_rest, the middle one is their cross product; an eigenvalue
\* is the quadratic form of its eigenvector.  Of equal eigenvalues the
\* eigenvectors are one orthonormal choice, of the zero matrix the unit
\* vectors.  The sign of column i is the library's, signs[i].
eigh(cov, signs) ==
    IF MaxAbs(cov) = 0
    THEN << <<0, 0, 0>>,
            << <<signs[1] * Scale, 0, 0>>, <<0, signs[2] * Scale, 0>>,
               <<0, 0, signs[3] * Scale>> >> >>
    ELSE The({The({The({
            <<(<<quad_form(cov, v1), quad_form(cov, v2), quad_form(cov, v3)>>),
              Mat3([r \in 1..3 |-> <<signs[1] * v1[r], signs[2] * v2[r],
                                     signs[3] * v3[r]>>])>> :
               v2 \in {unit3(cross3(v3, v1))}}) :
             v1 \in {dominant(eigh_rest(cov, v3, quad_form(cov, v3)))}}) :
          v3 \in {dominant(cov)}})

\* the indices in the descending order of w
argsort_descending(w) ==
    CHOOSE p \in {<<1, 2, 3>>, <<1, 3, 2>>, <<2, 1, 3>>, <<2, 3, 1>>,
                  <<3, 1, 2>>, <<3, 2, 1>>} :
        \A a, b \in 1..3 :
            a < b => (w[p[a]] > w[p[b]] \/ (w[p[a]] = w[p[b]] /\ p[a] < p[b]))

\* the indices 1, 2, 3 in the ascending order of w, equal values in their
\* own order: w.argsort()
argsort(w) ==
    CHOOSE p \in {<<1, 2, 3>>, <<1, 3, 2>>, <<2, 1, 3>>, <<2, 3, 1>>,
                  <<3, 1, 2>>, <<3, 2, 1>>} :
        \A a, b \in 1..3 :
            a < b => (w[p[a]] < w[p[b]] \/ (w[p[a]] = w[p[b]] /\ p[a] < p[b]))

\* cov_eig(lon, lat, bidirectional): <<eigvals[order], eigvecs[:, order]>>,
\* the eigenvalues ascending and column i the eigenvector of value i.  A
\* covariance with NaN (one point, not bidirectional) has NaN for both.
cov_eig(pts, bidirectional, signs) ==
    The({IF MatHasNaN(cov) THEN <<(<<NaN, NaN, NaN>>), NaNMatrix>>
         ELSE The({The({<<(<<e[1][order[1]], e[1][order[2]], e[1][order[3]]>>),
                          Mat3([r \in 1..3 |->
                                  <<e[2][r][order[1]], e[2][r][order[2]],
                                    e[2][r][order[3]]>>])>> :
                           order \in {argsort(e[1])}}) :
                     e \in {eigh(cov, signs)}}) :
            cov \in {cov_eig_cov(pts, bidirectional)}})

\* _convert_measurements(data, measurement): the <<lon, lat>> of the
\* measurements, each a pair
_convert_measurements(data, measurement) ==
    IF measurement = "poles"
    THEN pole([i \in 1..Len(data) |-> data[i][1]],
              [i \in 1..Len(data) |-> data[i][2]])
    ELSE IF measurement = "lines"
    THEN [i \in 1..Len(data) |-> line(data[i][1], data[i][2])]
    ELSE data

\* vecs[:, vec] of the 3 x 3 array vecs; vec = -1 is the last column
column(vecs, vec) ==
    The({<<vecs[1][c], vecs[2][c], vecs[3][c]>> :
            c \in {IF vec < 0 THEN 3 + vec + 1 ELSE vec + 1}})

\* _sd_of_eigenvector(data, vec, measurement, bidirectional): the
\* <<strike, dip>> that the floats can give of the plane whose pole is the
\* eigenvector vec of cov_eig
_sd_of_eigenvector(data, vec, measurement, bidirectional, signs) ==
    UNION {{Returns(sd) : sd \in geographic2pole(ll[1], ll[2])} :
              ll \in {cart2sph(Fix(v[1]), Fix(v[2]), Fix(v[3])) :
                        v \in {column(cov_eig(pts, bidirectional, signs)[2],
                                      vec) :
                                 pts \in {_convert_measurements(data,
                                                          measurement)}}}}

fit_girdle(data, measurement, bidirectional, signs) ==
    _sd_of_eigenvector(data, 0, measurement, bidirectional, signs)

fit_pole(data, measurement, bidirectional, signs) ==
    _sd_of_eigenvector(data, -1, measurement, bidirectional, signs)

\* s as it is
not_reversed(s) == s

\* s[::-1] of a sequence
reversed(s) == [i \in 1..Len(s) |-> s[Len(s) + 1 - i]]

\* eigenvectors(data, measurement, bidirectional): <<plunges, bearings,
\* vals>>, each of three elements.  cart2sph(*vecs) takes the rows of vecs
\* as x, y and z, so element i is of column i.
eigenvectors(data, measurement, bidirectional, signs) ==
    UNION {UNION {
       {Returns(<<reversed(<<pb1[1], pb2[1], pb3[1]>>),
                  reversed(<<pb1[2], pb2[2], pb3[2]>>),
                  reversed(e[1])>>) :
           pb1 \in geographic2plunge_bearing(ll[1][1], ll[1][2]),
           pb2 \in geographic2plunge_bearing(ll[2][1], ll[2][2]),
           pb3 \in geographic2plunge_bearing(ll[3][1], ll[3][2])} :
         ll \in {[i \in 1..3 |-> cart2sph(Fix(e[2][1][i]), Fix(e[2][2][i]),
                                          Fix(e[2][3][i]))]}} :
       e \in {cov_eig(pts, bidirectional, signs) :
                pts \in {_convert_measurements(data, measurement)}}}

\* cov_eig called by itself, on <<lon, lat>> in radians
CovEigCall ==
    AnReturn("cov_eig",
             {Returns(cov_eig(anCall.points, anCall.bidirectional,
                              anCall.signs))})

FitGirdleCall ==
    AnReturn("fit_girdle",
             fit_girdle(anCall.points, anCall.measurement,
                        anCall.bidirectional, anCall.signs))

FitPoleCall ==
    AnReturn("fit_pole",
             fit_pole(anCall.points, anCall.measurement,
                      anCall.bidirectional, anCall.signs))

EigenvectorsCall ==
    AnReturn("eigenvectors",
             eigenvectors(anCall.points, anCall.measurement,
                          anCall.bidirectional, anCall.signs))

\* the points plane is asked for
PlaneSegments == 3

\* np.linspace(start, stop, num)[i - 1], num > 1
np_linspace(start, stop, num, i) ==
    start + RoundDiv((stop - start) * (i - 1), num - 1)

\* plane(strike, dip, segments) of one plane, center = (0, 0): the
\* <<lon, lat>> in radians of segments points along the plane
plane(strike, dip, segments) ==
    Array([i \in 1..segments |->
             _rotate(90 * Deg - dip,
                     np_linspace(-90 * Deg, 90 * Deg, segments, i), strike)])

\* the sequences of <<strike, dip>> that geographic2pole can give of the
\* points pts
geographic2pole_each(pts) ==
    UNION {{Array(g) : g \in
               {h \in [1..Len(sds) -> UNION {sds[i] : i \in 1..Len(sds)}] :
                   \A i \in 1..Len(sds) : h[i] \in sds[i]}} :
             sds \in {Array([i \in 1..Len(p) |->
                               geographic2pole(p[i][1], p[i][2])]) :
                         p \in {pts}}}

\* the measurements of pts with those of the subset bits (a sum of powers of
\* two, 2^(i - 1) for measurement i) replaced by their antipodes
antipodes_of_subset(pts, bits) ==
    [i \in 1..Len(pts) |->
        IF (bits \div 2^(i - 1)) % 2 = 1 THEN antipode(pts[i][1], pts[i][2])
        ELSE pts[i]]

\* five lines around the line (plunge, bearing), as the tests of eigenvectors
\* take them: the plunge -10, -5, 0, 5 and 10 degrees off
ClusterOffsets == <<-10 * Deg, -5 * Deg, 0, 5 * Deg, 10 * Deg>>
cluster(plunge, bearing) ==
    [i \in 1..Len(ClusterOffsets) |-> <<plunge + ClusterOffsets[i], bearing>>]
ClusterBearings == {60 * k * Deg : k \in 0..6}

---------------------------------------------------------------------------
(* Specifications: one per entry point, the others idle *)

InitPole ==
    /\ \E n \in 1..MaxArr :
         poleCall \in [pc : {"call"},
                       strikeObj : [kind : ArgKinds, data : [1..n -> StrikeVals]],
                       dipObj : [kind : ArgKinds, data : [1..n -> DipVals]],
                       lon : {<<>>}, lat : {<<>>}]
    /\ cartCall = CartIdle
    /\ kmCall = KmIdle
    /\ dnCall = DnIdle
    /\ mathCall = MathIdle
    /\ dispCall = DispIdle
    /\ anCall = AnIdle
    /\ parseCall = ParseIdle
    /\ axesObj = AxesIdle

SpecPole == InitPole /\ [][PoleCall]_vars

InitCart ==
    /\ cartCall \in [pc : {"call"}, xyz : CartVals \X CartVals \X CartVals,
                     lon : {0}, lat : {0}]
    /\ poleCall = PoleIdle
    /\ kmCall = KmIdle
    /\ dnCall = DnIdle
    /\ mathCall = MathIdle
    /\ dispCall = DispIdle
    /\ anCall = AnIdle
    /\ parseCall = ParseIdle
    /\ axesObj = AxesIdle

SpecCart == InitCart /\ [][Cart2sphCall]_vars

\* the measurements are given in the order of KmPlanes (their order does not
\* matter to kmeans) and converted by pole, the default measurement
InitKmeans ==
    /\ \E n \in 1..KmMaxPts :
       \E ix \in [1..n -> 1..Len(KmPlanes)] :
          /\ \A a, b \in 1..n : a <= b => ix[a] <= ix[b]
          /\ LET pts == pole([i \in 1..n |-> KmPlanes[ix[i]][1]],
                             [i \in 1..n |-> KmPlanes[ix[i]][2]])
             IN  kmCall \in [pc : {"Init"}, points : {pts}, num : KmNums,
                             bidirectional : BOOLEAN,
                             tolerance : KmTolerances, sign : {1, -1},
                             centers : {<<>>}, closest : {<<>>},
                             new_centers : {<<>>}]
    /\ poleCall = PoleIdle
    /\ cartCall = CartIdle
    /\ dnCall = DnIdle
    /\ mathCall = MathIdle
    /\ dispCall = DispIdle
    /\ anCall = AnIdle
    /\ parseCall = ParseIdle
    /\ axesObj = AxesIdle

NextKmeans ==
    \/ KmPickCenters
    \/ KmAssign
    \/ KmReestimate
    \/ KmReestimateRaises
    \/ KmTest

SpecKmeans == InitKmeans /\ [][NextKmeans]_vars

\* calls with one to DnMaxPts measurements and no weights or one weight for
\* each measurement, and the basic case of one horizontal plane
InitDensity ==
    /\ \/ \E n \in 1..DnMaxPts :
          \E ix \in [1..n -> 1..Len(DnPlanes)] :
             dnCall \in [pc : {"call"},
                         strike : {[i \in 1..n |-> DnPlanes[ix[i]][1]]},
                         dip : {[i \in 1..n |-> DnPlanes[ix[i]][2]]},
                         method : Methods, sigma : DnSigmas,
                         gridsize : DnGridsizes,
                         weights : {WeightsNone} \cup
                                   [kind : {"array"},
                                    data : [1..n -> DnWeightVals]],
                         lon : {<<>>}, lat : {<<>>}, z : {<<>>}]
       \/ dnCall \in [pc : {"call"}, strike : {<<0>>}, dip : {<<0>>},
                       method : Methods, sigma : {3},
                       gridsize : DnBasicGridsizes, weights : {WeightsNone},
                       lon : {<<>>}, lat : {<<>>}, z : {<<>>}]
    /\ poleCall = PoleIdle
    /\ cartCall = CartIdle
    /\ kmCall = KmIdle
    /\ mathCall = MathIdle
    /\ dispCall = DispIdle
    /\ anCall = AnIdle
    /\ parseCall = ParseIdle
    /\ axesObj = AxesIdle

SpecDensity == InitDensity /\ [][DensityGridCall]_vars

\* one call of one conversion: fisher_stats on one to FsMaxPts lines,
\* the two inverse conversions on the poles of planes and on a grid of
\* points, and so on for each function
InitMath ==
    /\ \/ \E n \in 1..FsMaxPts : \E first \in 1..Len(FsLines) - n + 1 :
          \E pts \in {[i \in 1..n |-> line(FsLines[first + i - 1][1],
                                            FsLines[first + i - 1][2])]} :
              mathCall \in [pc : {"call"}, fn : {"fisher_stats"},
                            src : {<<"line", first>>},
                            args : {pts} \X FsConfs, out : {<<>>}]
       \/ \E s \in TenStrikes, d \in TenDips :
          mathCall \in [pc : {"call"}, fn : {"geographic2pole"},
                        src : {<<"pole", s, d>>},
                        args : {pole(<<s>>, <<d>>)[1]}, out : {<<>>}]
       \/ \E lon \in GridLons, lat \in GridLats :
          mathCall \in [pc : {"call"},
                        fn : {"geographic2pole", "geographic2plunge_bearing",
                              "antipode"},
                        src : {<<"radians", lon, lat>>},
                        args : {<<np_radians(lon), np_radians(lat)>>},
                        out : {<<>>}]
       \/ \E p \in QuarterPlunges, b \in Azimuths :
          mathCall \in [pc : {"call"}, fn : {"plunge_bearing2pole"},
                        src : {<<"given">>}, args : {<<p, b>>}, out : {<<>>}]
       \/ \E d \in QuarterPlunges, s \in StrikeFloats :
          mathCall \in [pc : {"call"}, fn : {"pole2plunge_bearing"},
                        src : {<<"given">>}, args : {<<s, d>>}, out : {<<>>}]
       \/ \E p \in QuarterPlunges, b \in Azimuths :
          \E sd \in {plunge_bearing2pole(p, b)} :
          mathCall \in [pc : {"call"}, fn : {"pole2plunge_bearing"},
                        src : {<<"plunge_bearing2pole", p, b>>},
                        args : {<<(<<sd[1], 0>>), sd[2]>>}, out : {<<>>}]
       \/ \E d \in QuarterPlunges, s \in Azimuths :
          \E pb \in {pole2plunge_bearing(<<s, 0>>, d)} :
          mathCall \in [pc : {"call"}, fn : {"plunge_bearing2pole"},
                        src : {<<"pole2plunge_bearing", s, d>>},
                        args : {<<pb[1], pb[2][1]>>}, out : {<<>>}]
       \/ \E lon \in GridLons, lat \in GridLats :
          \E p \in {<<np_radians(lon), np_radians(lat)>>} :
          \E q \in {antipode(p[1], p[2])} :
             \/ mathCall \in [pc : {"call"}, fn : {"antipode"},
                              src : {<<"antipode", p>>}, args : {q},
                              out : {<<>>}]
             \/ mathCall \in [pc : {"call"}, fn : {"angular_distance"},
                              src : {<<"antipode", p>>},
                              args : {<<p, q, FALSE>>}, out : {<<>>}]
       \/ \E a \in AdLines, b \in AdLines :
          mathCall \in [pc : {"call"}, fn : {"angular_distance"},
                        src : {<<"line", a, b>>},
                        args : {line(a[1], a[2])} \X {line(b[1], b[2])}
                               \X BOOLEAN,
                        out : {<<>>}]
       \/ \E s1 \in PiStrikes, d1 \in PiDips, s2 \in PiStrikes, d2 \in PiDips :
          mathCall \in [pc : {"call"}, fn : {"plane_intersection"},
                        src : {<<"given">>}, args : {<<s1, d1, s2, d2>>},
                        out : {<<>>}]
       \/ \E s \in PopStrikes, d \in PopDips, r \in PopRakes :
          \E ll \in {rake(s, d, r)} :
          \E pb \in geographic2plunge_bearing(ll[1], ll[2]) :
          mathCall \in [pc : {"call"}, fn : {"project_onto_plane"},
                        src : {<<"rake", r>>},
                        args : {<<s, d, pb[1], pb[2]>>}, out : {<<>>}]
       \/ \E s \in PopStrikes, d \in PopDips, l \in PopLines :
          mathCall \in [pc : {"call"}, fn : {"project_onto_plane"},
                        src : {<<"given">>},
                        args : {<<s, d, l[1], l[2]>>}, out : {<<>>}]
    /\ poleCall = PoleIdle
    /\ cartCall = CartIdle
    /\ kmCall = KmIdle
    /\ dnCall = DnIdle
    /\ dispCall = DispIdle
    /\ anCall = AnIdle
    /\ parseCall = ParseIdle
    /\ axesObj = AxesIdle

NextMath ==
    \/ FisherStatsCall
    \/ Geographic2plungeBearingCall
    \/ Geographic2poleCall
    \/ PlungeBearing2poleCall
    \/ Pole2plungeBearingCall
    \/ AntipodeCall
    \/ AngularDistanceCall
    \/ PlaneIntersectionCall
    \/ ProjectOntoPlaneCall

SpecMath == InitMath /\ [][NextMath]_vars

\* one call of an entry point with one measurement, two argument objects
\* (three for rakes), any measurement keyword and, for density_grid, any
\* method
InitDispatch ==
    /\ \E fn \in EntryPoints, measurement \in DispMeasurements :
       \E kind \in ArgKinds, a \in DispFirsts, b \in DispSeconds,
          c \in DispThirds :
          LET objs == IF measurement = "rakes"
                      THEN <<[kind |-> kind, data |-> <<a>>],
                             [kind |-> kind, data |-> <<b>>],
                             [kind |-> kind, data |-> <<c>>]>>
                      ELSE <<[kind |-> kind, data |-> <<a>>],
                             [kind |-> kind, data |-> <<b>>]>>
          IN  dispCall \in [pc : {"call"}, fn : {fn},
                            measurement : {measurement},
                            method : IF fn = "density_grid" THEN DispMethods
                                     ELSE {"exponential_kamb"},
                            given : {objs}, data : {objs}, ran : {<<>>},
                            lonlat : {<<>>}, error : {None}]
    /\ poleCall = PoleIdle
    /\ cartCall = CartIdle
    /\ kmCall = KmIdle
    /\ dnCall = DnIdle
    /\ mathCall = MathIdle
    /\ anCall = AnIdle
    /\ parseCall = ParseIdle
    /\ axesObj = AxesIdle

NextDispatch ==
    \/ ConvertMeasurements
    \/ Statistics
    \/ DensityMethod

SpecDispatch == InitDispatch /\ [][NextDispatch]_vars

\* an axes made with any rotation, then any sequence of set_rotation and
\* get_rotation
InitAxes ==
    /\ axesObj \in {StereonetAxes(rotation) : rotation \in Rotations}
    /\ poleCall = PoleIdle
    /\ cartCall = CartIdle
    /\ kmCall = KmIdle
    /\ dnCall = DnIdle
    /\ mathCall = MathIdle
    /\ dispCall = DispIdle
    /\ anCall = AnIdle
    /\ parseCall = ParseIdle

NextAxes ==
    \/ set_rotation
    \/ get_rotation

SpecAxes == InitAxes /\ [][NextAxes]_vars

\* one call of an entry point of analysis.py: find_fisher_stats on one to
\* FsMaxPts lines; cov_eig on two to FsMaxPts lines and then on the same
\* lines with a subset replaced by the antipodes; fit_girdle on the poles
\* located at the points of a plane; fit_pole and eigenvectors on five lines
\* around a line
InitAnalysis ==
    /\ \/ \E n \in 1..FsMaxPts : \E first \in 1..Len(FsLines) - n + 1 :
          \E pts \in {[i \in 1..n |-> line(FsLines[first + i - 1][1],
                                            FsLines[first + i - 1][2])]} :
              anCall \in [pc : {"call"}, fn : {"find_fisher_stats"},
                          src : {<<"lines", first>>},
                          measurement : {"radians"}, points : {pts},
                          later : {<<>>}, bidirectional : {TRUE},
                          signs : {<<1, 1, 1>>},
                          conf : FsConfs, out : {<<>>}, error : {None}]
       \/ \E n \in 2..FsMaxPts : \E first \in 1..Len(FsLines) - n + 1 :
          \E bits \in 1..(2^n - 1) :
          \E pts \in {[i \in 1..n |-> line(FsLines[first + i - 1][1],
                                            FsLines[first + i - 1][2])]} :
              anCall \in [pc : {"call"}, fn : {"cov_eig"},
                          src : {<<"lines", first, bits>>},
                          measurement : {"radians"}, points : {pts},
                          later : {<<antipodes_of_subset(pts, bits)>>},
                          bidirectional : BOOLEAN, signs : EighSigns,
                          conf : {0}, out : {<<>>}, error : {None}]
       \/ \E strike \in TenStrikes \cup {360 * Deg}, dip \in TenDips :
          \E data \in geographic2pole_each(plane(strike, dip,
                                                 PlaneSegments)) :
              anCall \in [pc : {"call"}, fn : {"fit_girdle"},
                          src : {<<"plane", strike, dip>>},
                          measurement : {"poles"}, points : {data},
                          later : {<<>>}, bidirectional : {TRUE},
                          signs : EighSigns,
                          conf : {0}, out : {<<>>}, error : {None}]
       \/ \E plunge \in TenDips, bearing \in ClusterBearings :
              anCall \in [pc : {"call"}, fn : {"fit_pole", "eigenvectors"},
                          src : {<<"cluster", plunge, bearing>>},
                          measurement : {"lines"},
                          points : {cluster(plunge, bearing)},
                          later : {<<>>}, bidirectional : {TRUE},
                          signs : EighSigns,
                          conf : {0}, out : {<<>>}, error : {None}]
    /\ poleCall = PoleIdle
    /\ cartCall = CartIdle
    /\ kmCall = KmIdle
    /\ dnCall = DnIdle
    /\ mathCall = MathIdle
    /\ dispCall = DispIdle
    /\ parseCall = ParseIdle
    /\ axesObj = AxesIdle

NextAnalysis ==
    \/ FindFisherStatsCall
    \/ CovEigCall
    \/ FitGirdleCall
    \/ FitPoleCall
    \/ EigenvectorsCall

SpecAnalysis == InitAnalysis /\ [][NextAnalysis]_vars

\* one call of a parser on strings as they are written in the field
InitParse ==
    /\ \/ \E a \in QuadLetters, b \in QuadLetters, xx \in QuadAngles :
          parseCall \in [pc : {"call"}, fn : {"parse_quadrant_measurement"},
                         src : {<<a, xx[2], b>>},
                         args : {<<(<<a>>) \o xx[1] \o (<<b>>)>>},
                         out : {<<>>}, error : {None}]
       \/ \E s \in ParseStrikes, d \in ParseDips :
          parseCall \in [pc : {"call"}, fn : {"parse_strike_dip"},
                         src : {<<s[2], d[2], d[3]>>},
                         args : {<<s[1], d[1]>>},
                         out : {<<>>}, error : {None}]
       \/ \E s \in ParseStrikes, d \in ParseDips, r \in ParseRakes :
          parseCall \in [pc : {"call"}, fn : {"parse_rake"},
                         src : {<<s[2], d[2], d[3], r[2], r[3]>>},
                         args : {<<s[1], d[1], r[1]>>},
                         out : {<<>>}, error : {None}]
       \/ \E p \in ParsePlunges, b \in ParseStrikes :
          parseCall \in [pc : {"call"}, fn : {"parse_plunge_bearing"},
                         src : {<<p[2], p[3], b[2]>>},
                         args : {<<p[1], b[1]>>},
                         out : {<<>>}, error : {None}]
    /\ poleCall = PoleIdle
    /\ cartCall = CartIdle
    /\ kmCall = KmIdle
    /\ dnCall = DnIdle
    /\ mathCall = MathIdle
    /\ dispCall = DispIdle
    /\ anCall = AnIdle
    /\ axesObj = AxesIdle

NextParse ==
    \/ ParseQuadrantMeasurementCall
    \/ ParseStrikeDipCall
    \/ ParseRakeCall
    \/ ParsePlungeBearingCall

SpecParse == InitParse /\ [][NextParse]_vars

---------------------------------------------------------------------------
(* C1 *)

\* C1: pole(strike, dip) has no side effect on its arguments: after the call
\* the caller's strike and dip arrays hold the values they held before it.
C1_PoleLeavesArguments ==
    [][PoleCall => (poleCall'.strikeObj = poleCall.strikeObj
                    /\ poleCall'.dipObj = poleCall.dipObj)]_vars

(* C2 *)

\* C2: cart2sph guards against r = 0: the longitude and latitude returned for
\* (0, 0, 0) are finite numbers.
C2_ZeroNormGuarded ==
    (cartCall.pc = "returned" /\ cartCall.xyz = <<0, 0, 0>>)
        => (cartCall.lon # NaN /\ cartCall.lat # NaN)

(* C3 *)

\* C3: in the Init step of kmeans every initial center is one of the input
\* points: its (lon, lat) pair is the (lon, lat) pair of one measurement.
C3_InitialCentersAreInputPoints ==
    [][KmPickCenters =>
          \A i \in 1..kmCall.num :
              \E p \in 1..Len(kmCall.points) :
                  kmCall'.centers[i] = kmCall.points[p]]_vars

(* C4 *)

\* C4: the loop of kmeans stops exactly when every re-estimated center has
\* moved less than tolerance from the center it replaces: the test that ends
\* an iteration leads to Converged if and only if every coordinate of every
\* center changed by less than tolerance.
C4_StopsExactlyWhenMovedLessThanTolerance ==
    [][KmTest =>
          ((kmCall'.pc = "Converged")
              <=> \A i \in 1..kmCall.num : \A c \in 1..2 :
                     /\ kmCall.centers[i][c] # NaN
                     /\ kmCall.new_centers[i][c] # NaN
                     /\ Abs(kmCall.centers[i][c] - kmCall.new_centers[i][c])
                            < kmCall.tolerance)]_vars

(* C5 *)

C6_RegularGrid ==
    dnCall.pc = "returned" =>
        LET g     == density_gridsize(dnCall.gridsize)
            rows  == 1..g[1]
            cols  == 1..g[2]
            lon   == dnCall.lon
            lat   == dnCall.lat
            shape(a) == Len(a) = g[1] /\ \A r \in rows : Len(a[r]) = g[2]
            alongRows(a) == \A r \in rows : \A c, d \in cols : a[r][c] = a[r][d]
            alongCols(a) == \A c \in cols : \A r, q \in rows : a[r][c] = a[q][c]
            spans(a) ==
                /\ \A r \in rows : \A c \in cols :
                      -(PiFix \div 2) <= a[r][c] /\ a[r][c] <= PiFix \div 2
                /\ \E r \in rows : \E c \in cols : a[r][c] = -(PiFix \div 2)
                /\ \E r \in rows : \E c \in cols : a[r][c] = PiFix \div 2
            estimate(r, c) ==
                The({The({counter(<<lon[r][c], lat[r][c]>>, xyz_points,
                                  dnCall.method, dnCall.sigma,
                                  dnCall.weights.kind, wn).result.total :
                             xyz_points \in
                                 {Array([j \in 1..Len(points) |->
                                     sph2cart(points[j][1], points[j][2])])},
                             wn \in {normalize_weights(dnCall.weights.data)}}) :
                        points \in {pole(dnCall.strike, dnCall.dip)}})
        IN  /\ shape(lon) /\ shape(lat) /\ shape(dnCall.z)
            /\ spans(lon) /\ spans(lat)
            /\ \/ alongRows(lon) /\ alongCols(lat)
               \/ alongCols(lon) /\ alongRows(lat)
            /\ \A r \in rows : \A c \in cols : \A t \in {estimate(r, c)} :
                  dnCall.z[r][c] = IF t > 0 THEN t
                                   ELSE IF dnCall.method \in {"schmidt", "kamb"}
                                   THEN 0 ELSE tiny

(* C7 *)

\* C7: for every method and every weights array with one weight for each
\* measurement, density_grid returns a grid, and at every counter the
\* estimate is: the kernel value of measurement i (zero below the kernel
\* radius) times the normalized weight of measurement i, summed, less 0.5,
\* over the kernel's units.
C7_WeightedKernelSum ==
    (dnCall.pc \in {"returned", "raised"} /\ dnCall.weights.kind = "array") =>
        /\ dnCall.pc = "returned"
        /\ \A points \in {pole(dnCall.strike, dnCall.dip)} :
           \A wn \in {normalize_weights(dnCall.weights.data)} :
           \A r \in 1..Len(dnCall.z) : \A c \in 1..Len(dnCall.z[r]) :
           \A cos_dist \in
               {Array([j \in 1..Len(points) |->
                   Abs(Dot(sph2cart(dnCall.lon[r][c], dnCall.lat[r][c]),
                           sph2cart(points[j][1], points[j][2])))])} :
           \A k \in {Kernel(dnCall.method, cos_dist, dnCall.sigma)} :
              LET n      == Len(points)
                  radius == _kamb_radius(n, dnCall.sigma)
                  rank(i) == Cardinality({j \in 1..i : cos_dist[j] >= radius})
                  value(i) == IF Len(k[1]) = n THEN k[1][i]
                              ELSE IF cos_dist[i] >= radius THEN k[1][rank(i)]
                              ELSE 0
                  t == DivT(np_sum([i \in 1..n |-> MulT(value(i), wn[i])])
                                - Scale \div 2, k[2])
              IN  dnCall.z[r][c] = IF t > 0 THEN t
                                   ELSE IF dnCall.method \in {"schmidt", "kamb"}
                                   THEN 0 ELSE tiny

(* C8 *)

\* C8: the result of density_grid does not depend on the scale of the
\* weights: weights w and 2 * w give the same result, and weights that are
\* all equal give the result of weights = None.
C8_WeightScaleInvariance ==
    (dnCall.pc \in {"returned", "raised"} /\ dnCall.weights.kind = "array") =>
        LET data == dnCall.weights.data
            outcome(weights) ==
                The({[raised |-> r.raised,
                      z |-> IF r.raised THEN <<>> ELSE r.z] :
                        r \in {density_grid(dnCall.strike, dnCall.dip,
                                            dnCall.method, dnCall.sigma,
                                            dnCall.gridsize, weights)}})
            mine == [raised |-> dnCall.pc = "raised", z |-> dnCall.z]
        IN  /\ mine = outcome([kind |-> "array",
                               data |-> [i \in 1..Len(data) |-> 2 * data[i]]])
            /\ (\A i, j \in 1..Len(data) : data[i] = data[j])
                   => mine = outcome(WeightsNone)

(* C9 *)

\* C9: every density value returned by density_grid is >= 0; for a method
\* other than 'kamb' and 'schmidt' no value is exactly 0; for 'kamb' and
\* 'schmidt' a cell whose estimate is not positive is returned as exactly 0.
C9_DensityNonNegative ==
    dnCall.pc = "returned" =>
        \A points \in {pole(dnCall.strike, dnCall.dip)} :
        \A xyz_points \in {Array([j \in 1..Len(points) |->
                              sph2cart(points[j][1], points[j][2])])} :
        \A wn \in {normalize_weights(dnCall.weights.data)} :
        \A r \in 1..Len(dnCall.z) : \A c \in 1..Len(dnCall.z[r]) :
           /\ dnCall.z[r][c] >= 0
           /\ dnCall.method \notin {"schmidt", "kamb"} => dnCall.z[r][c] # 0
           /\ dnCall.method \in {"schmidt", "kamb"} =>
                 \A t \in {counter(<<dnCall.lon[r][c], dnCall.lat[r][c]>>,
                                   xyz_points, dnCall.method, dnCall.sigma,
                                   dnCall.weights.kind, wn).result.total} :
                    dnCall.z[r][c] = IF t <= 0 THEN 0 ELSE t

\* a smoothed method has returned a grid with a cell raised from 0 to tiny
\* beside a cell with a positive estimate
C9_Witness ==
    /\ dnCall.pc = "returned"
    /\ dnCall.method = "exponential_kamb"
    /\ \E r \in 1..Len(dnCall.z) : \E c \in 1..Len(dnCall.z[r]) :
          dnCall.z[r][c] = tiny
    /\ \E r \in 1..Len(dnCall.z) : \E c \in 1..Len(dnCall.z[r]) :
          dnCall.z[r][c] > tiny

(* C10 *)

\* C10 as stated: for strike = 0, dip = 0 and method = 'schmidt' the full
\* value, 100 points per 1% area, is in exactly one cell, a cell nearest the
\* pole, and every other cell is 0, on the 10 x 10 and on the 5 x 5 grid.
C10_SchmidtSingleCell ==
    (/\ dnCall.pc = "returned"
     /\ dnCall.strike = <<0>> /\ dnCall.dip = <<0>>
     /\ dnCall.method = "schmidt"
     /\ dnCall.gridsize \in DnBasicGridsizes) =>
        LET cells == {<<r, c>> : r \in 1..Len(dnCall.z),
                                 c \in 1..Len(dnCall.z[1])}
            at(e) == <<dnCall.lon[e[1]][e[2]], dnCall.lat[e[1]][e[2]]>>
            far(e) == angular_distance(pole(<<0>>, <<0>>)[1], <<at(e)>>,
                                       TRUE)[1]
        IN  \E e \in cells :
               /\ dnCall.z[e[1]][e[2]] = 100 * Scale
               /\ \A o \in cells : far(e) <= far(o)
               /\ \A o \in cells \ {e} : dnCall.z[o[1]][o[2]] = 0

\* C10 amended: for strike = 0, dip = 0 and method = 'schmidt' a cell holds
\* the full value 100 if its counter is at the pole and 0 otherwise: the
\* 5 x 5 grid has its centre counter at the pole and holds 100 there only,
\* the 10 x 10 grid has no counter within the 1% circle and is 0 everywhere.
C10_SchmidtBasicValues ==
    (/\ dnCall.pc = "returned"
     /\ dnCall.strike = <<0>> /\ dnCall.dip = <<0>>
     /\ dnCall.method = "schmidt"
     /\ dnCall.gridsize \in DnBasicGridsizes) =>
        /\ \A r \in 1..Len(dnCall.z) : \A c \in 1..Len(dnCall.z[r]) :
              dnCall.z[r][c] =
                  IF <<dnCall.lon[r][c], dnCall.lat[r][c]>>
                         = pole(<<0>>, <<0>>)[1]
                  THEN 100 * Scale ELSE 0
        /\ dnCall.gridsize = <<5, 5>> =>
              /\ dnCall.z[3][3] = 100 * Scale
              /\ \A r, c \in 1..5 : <<r, c>> # <<3, 3>> => dnCall.z[r][c] = 0
        /\ dnCall.gridsize = <<10, 10>> =>
              \A r, c \in 1..10 : dnCall.z[r][c] = 0

\* the 5 x 5 grid of the basic case is returned with 100 at its centre
C10_Witness ==
    /\ dnCall.pc = "returned"
    /\ dnCall.strike = <<0>> /\ dnCall.dip = <<0>>
    /\ dnCall.method = "schmidt"
    /\ dnCall.gridsize = <<5, 5>>
    /\ dnCall.z[3][3] = 100 * Scale

---------------------------------------------------------------------------
(* Comparisons at the resolution of the arithmetic *)

\* two angles in degrees agree: np.allclose at the resolution of the
\* tabulated functions, a hundredth of a degree
AngleTol == 10000

\* two cartesian components agree
VecTol == 200

\* the difference of two directions in degrees, around the circle
CircDiff(a, b) ==
    The({IF m > 180 * Deg THEN 360 * Deg - m ELSE m :
            m \in {(a - b) % (360 * Deg)}})

\* the unit vectors u and v are the same, or antipodes of each other
SameAxis(u, v) ==
    \/ \A j \in 1..3 : Abs(ToFix(u[j]) - ToFix(v[j])) <= VecTol
    \/ \A j \in 1..3 : Abs(ToFix(u[j]) + ToFix(v[j])) <= VecTol

\* the unit vectors u and v are the same
SameVector(u, v) == \A j \in 1..3 : Abs(ToFix(u[j]) - ToFix(v[j])) <= VecTol

\* the call f of stereonet_math.py has returned
Returned(f) == mathCall.pc = "returned" /\ mathCall.fn = f

---------------------------------------------------------------------------
(* C12 *)

\* the length R of the sum of the unit vectors of the points
C12_Resultant(pts) ==
    The({norm3(<<xyz_sum(xyz, 1), xyz_sum(xyz, 2), xyz_sum(xyz, 3)>>) :
            xyz \in {Array([i \in 1..Len(pts) |->
                       The({<<ToFix(c[1]), ToFix(c[2]), ToFix(c[3])>> :
                               c \in {sph2cart(pts[i][1], pts[i][2])}})])}})

\* C12: fisher_stats returns (None, None) for exactly one point, and for
\* N >= 2 points the pair (mean_vec, (r_value, angle, kappa)) with
\* kappa = (N - 1) / (N - R), R the length of the vector sum.
C12_FisherStats ==
    Returned("fisher_stats") =>
        \A pts \in {mathCall.args[1]}, out \in {mathCall.out} :
            IF Len(pts) = 1 THEN out = <<None, None>>
            ELSE /\ Len(out) = 2
                 /\ Len(out[1]) = 2
                 /\ Len(out[2]) = 3
                 /\ \A R \in {C12_Resultant(pts)} :
                       /\ out[2][3] = DivInf((Len(pts) - 1) * Scale,
                                             Len(pts) * Scale - R)
                       /\ Abs(Len(pts) * out[2][1] - R) <= Len(pts)

\* fisher_stats has returned the statistics of three points, kappa finite
C12_Witness ==
    /\ Returned("fisher_stats")
    /\ Len(mathCall.args[1]) = 3
    /\ mathCall.out[2] # None
    /\ mathCall.out[2][3] > Scale
    /\ mathCall.out[2][3] < Inf

---------------------------------------------------------------------------
(* C13 *)

\* C13: geographic2pole inverts pole: geographic2pole(*pole(strike, dip)) is
\* (strike, dip) for strike in [0, 360) and 0 < dip < 90, and at dip 0 and
\* dip 90 it is a plane with the same pole up to the antipode.
C13_Geographic2poleInvertsPole ==
    (Returned("geographic2pole") /\ mathCall.src[1] = "pole") =>
        \A s \in {mathCall.src[2]}, d \in {mathCall.src[3]},
           out \in {mathCall.out} :
            IF 0 < d /\ d < 90 * Deg
            THEN /\ CircDiff(out[1], s) <= AngleTol
                 /\ Abs(out[2] - d) <= AngleTol
            ELSE /\ out[1] # NaN
                 /\ SameAxis(pole_vector(out[1], out[2]), pole_vector(s, d))

\* geographic2pole has returned for the pole of the plane 350/10
C13_Witness ==
    /\ Returned("geographic2pole")
    /\ mathCall.src = <<"pole", 350 * Deg, 10 * Deg>>
    /\ Abs(mathCall.out[2] - 10 * Deg) <= AngleTol

---------------------------------------------------------------------------
(* C14 *)

\* C14: geographic2plunge_bearing returns a plunge in [0, 90] and a bearing
\* in [0, 360), and geographic2pole a strike in [0, 360) and a dip in
\* [0, 90].
C14_DownwardRanges ==
    /\ Returned("geographic2plunge_bearing") =>
          /\ 0 <= mathCall.out[1] /\ mathCall.out[1] <= 90 * Deg
          /\ 0 <= mathCall.out[2] /\ mathCall.out[2] < 360 * Deg
    /\ Returned("geographic2pole") =>
          /\ 0 <= mathCall.out[1] /\ mathCall.out[1] < 360 * Deg
          /\ 0 <= mathCall.out[2] /\ mathCall.out[2] <= 90 * Deg

---------------------------------------------------------------------------
(* C15 *)

\* C15: plunge_bearing2pole returns a strike in [0, 360) for a bearing in
\* [0, 360), pole2plunge_bearing returns a bearing in [0, 360), and each
\* undoes the other.
C15_PoleAndLineInverses ==
    /\ Returned("plunge_bearing2pole") =>
          /\ 0 <= mathCall.out[1] /\ mathCall.out[1] < 360 * Deg
          /\ mathCall.src[1] = "pole2plunge_bearing" =>
                mathCall.out = <<mathCall.src[2], mathCall.src[3]>>
    /\ Returned("pole2plunge_bearing") =>
          /\ 0 <= mathCall.out[2][1] /\ mathCall.out[2][1] < 360 * Deg
          /\ mathCall.src[1] = "plunge_bearing2pole" =>
                <<mathCall.out[1], mathCall.out[2][1]>>
                    = <<mathCall.src[2], mathCall.src[3]>>

---------------------------------------------------------------------------
(* C16 *)

\* C16: for 90 < dip <= 180 pole(strike, dip) is pole(strike + 180,
\* 180 - dip), and its longitude lies in [-pi/2, pi/2].
C16_PoleFoldsSteepDips ==
    [][PoleCall =>
         \A i \in 1..Len(poleCall.dipObj.data) :
            \A s \in {poleCall.strikeObj.data[i]},
               d \in {poleCall.dipObj.data[i]} :
               (90 * Deg < d /\ d <= 180 * Deg) =>
                  /\ <<poleCall'.lon[i], poleCall'.lat[i]>>
                        = pole(<<s + 180 * Deg>>, <<180 * Deg - d>>)[1]
                  /\ -(PiFix \div 2) <= poleCall'.lon[i]
                  /\ poleCall'.lon[i] <= PiFix \div 2]_vars

\* pole has returned for the plane 90/135, given as lists, with the pole of
\* the plane 270/45
C16_Witness ==
    /\ poleCall.pc = "returned"
    /\ poleCall.strikeObj = [kind |-> "sequence", data |-> <<90 * Deg>>]
    /\ poleCall.dipObj = [kind |-> "sequence", data |-> <<135 * Deg>>]
    /\ <<poleCall.lon[1], poleCall.lat[1]>>
          = _rotate(-45 * Deg, 0, 270 * Deg)

---------------------------------------------------------------------------
(* C17 *)

\* two angles in radians agree at the resolution of np.arccos next to 1 and
\* -1, where a step of the dot product is a thousand steps of the angle
PiTol == 3000

\* C17: the antipode of the antipode of a point is the point, and the
\* directed angular distance of a point and its antipode is pi.
C17_AntipodeInvolution ==
    /\ (Returned("antipode") /\ mathCall.src[1] = "antipode") =>
          \A p \in {mathCall.src[2]}, out \in {mathCall.out} :
             SameVector(sph2cart(out[1], out[2]), sph2cart(p[1], p[2]))
    /\ (Returned("angular_distance") /\ mathCall.src[1] = "antipode") =>
          /\ mathCall.out # NaN
          /\ Abs(mathCall.out - PiFix) <= PiTol

\* the distance of the point (lon, lat) = (60, 30) degrees and its antipode
\* has been taken
C17_Witness ==
    /\ Returned("angular_distance")
    /\ mathCall.src = <<"antipode", <<Radians(60), Radians(30)>>>>
    /\ mathCall.out > PiFix \div 2

---------------------------------------------------------------------------
(* C18 *)

\* the directed angle of two points, from the dot product of their vectors
C18_Directed(p, q) ==
    Arccos(Dot(sph2cart(p[1], p[2]), sph2cart(q[1], q[2])))

\* C18: the directed angular distance d lies in [0, pi]; the bidirectional
\* one is min(d, pi - d) and lies in [0, pi/2]; line(30, 270) and
\* line(40, 90) are 70 degrees apart bidirectionally and 110 directed.
C18_AngularDistanceRange ==
    (Returned("angular_distance") /\ mathCall.src[1] = "line") =>
        \A d \in {C18_Directed(mathCall.args[1], mathCall.args[2])},
           out \in {mathCall.out} :
           /\ out # NaN
           /\ 0 <= out
           /\ IF mathCall.args[3]
              THEN /\ out <= PiFix \div 2
                   /\ out = IF d <= PiFix - d THEN d ELSE PiFix - d
              ELSE /\ out <= PiFix
                   /\ out = d
           /\ (mathCall.src[2] = <<30 * Deg, 270 * Deg>>
               /\ mathCall.src[3] = <<40 * Deg, 90 * Deg>>) =>
                 Abs(np_degrees(out)
                       - (IF mathCall.args[3] THEN 70 ELSE 110) * Deg)
                    <= AngleTol

\* the bidirectional distance of line(30, 270) and line(40, 90) has been
\* taken, and is below a right angle
C18_Witness ==
    /\ Returned("angular_distance")
    /\ mathCall.src = <<"line", <<30 * Deg, 270 * Deg>>, <<40 * Deg, 90 * Deg>>>>
    /\ mathCall.args[3]
    /\ mathCall.out < PiFix \div 2

---------------------------------------------------------------------------
(* C19 *)

\* C19: plane_intersection returns the line along the cross product of the
\* poles of the two planes: it is perpendicular to both poles, its plunge is
\* >= 0 and its bearing in [0, 360); planes (0, 90) and (90, 80) meet in
\* (80, 180), planes (0, 90) and (270, 80) in (80, 0).
C19_PlaneIntersection ==
    Returned("plane_intersection") =>
        \A a \in {mathCall.args}, out \in {mathCall.out} :
           /\ out[1] # NaN /\ out[2] # NaN
           /\ 0 <= out[1]
           /\ 0 <= out[2] /\ out[2] < 360 * Deg
           /\ \A v \in {line_vector(out[1], out[2])} :
                 /\ Abs(Dot(v, pole_vector(a[1], a[2]))) <= VecTol
                 /\ Abs(Dot(v, pole_vector(a[3], a[4]))) <= VecTol
           /\ a = <<0, 90 * Deg, 90 * Deg, 80 * Deg>> =>
                 /\ Abs(out[1] - 80 * Deg) <= AngleTol
                 /\ CircDiff(out[2], 180 * Deg) <= AngleTol
           /\ a = <<0, 90 * Deg, 270 * Deg, 80 * Deg>> =>
                 /\ Abs(out[1] - 80 * Deg) <= AngleTol
                 /\ CircDiff(out[2], 0) <= AngleTol

---------------------------------------------------------------------------
(* C20 *)

\* C20: project_onto_plane returns a rake in [-90, 90], and for a line of
\* rake r in (-90, 90] on the plane, project_onto_plane(strike, dip,
\* *geographic2plunge_bearing(*rake(strike, dip, r))) is r.
C20_ProjectOntoPlaneInvertsRake ==
    Returned("project_onto_plane") =>
        /\ mathCall.out # NaN
        /\ -90 * Deg <= mathCall.out /\ mathCall.out <= 90 * Deg
        /\ mathCall.src[1] = "rake" =>
              Abs(mathCall.out - mathCall.src[2]) <= AngleTol

---------------------------------------------------------------------------
(* C11 *)

\* C11: an unrecognized measurement keyword makes every entry point fail
\* with a key error before anything is converted or computed, and so does
\* an unrecognized method for density_grid; no result is returned.
C11_UnknownKeywordFailsFirst ==
    (\/ /\ dispCall.pc \in {"converted", "returned", "raised"}
        /\ dispCall.measurement \notin Measurements
     \/ /\ dispCall.pc \in {"returned", "raised"}
        /\ dispCall.fn = "density_grid"
        /\ dispCall.method \notin Methods)
    => /\ dispCall.pc = "raised"
       /\ dispCall.error = "KeyError"
       /\ dispCall.ran = <<>>
       /\ dispCall.data = dispCall.given

---------------------------------------------------------------------------
(* C30 *)

\* C30: get_rotation returns the rotation most recently supplied to the
\* axes, whichever way it was supplied: r after StereonetAxes(rotation = r)
\* with no later set_rotation, and r after set_rotation(r).
C30_GetRotationReturnsSupplied ==
    axesObj.pc = "got" => Abs(axesObj.got - axesObj.supplied) <= AngleTol

---------------------------------------------------------------------------
(* C29 *)

\* C29: find_fisher_stats with exactly one measurement does not return a
\* (mean_vector, stats) result and does not hand the None sentinel of
\* fisher_stats on to its caller: unpacking the None center raises.  With
\* two and more measurements it returns the mean vector and the statistics.
C29_OneMeasurementRaises ==
    (anCall.fn = "find_fisher_stats" /\ anCall.pc # "call") =>
        IF Len(anCall.points) = 1
        THEN /\ anCall.pc = "raised"
             /\ anCall.error = "TypeError"
             /\ anCall.out = <<>>
        ELSE /\ anCall.pc = "returned"
             /\ anCall.error = None
             /\ Len(anCall.out) = 1
             /\ None \notin {anCall.out[1][1], anCall.out[1][2]}

\* find_fisher_stats has raised on one measurement
C29_Witness ==
    /\ anCall.fn = "find_fisher_stats"
    /\ anCall.pc = "raised"
    /\ Len(anCall.points) = 1

---------------------------------------------------------------------------
(* C28 *)

\* C28: in Assign a distance tie goes to the lowest-index center, so while
\* two current centers coincide the higher-index one is assigned no point;
\* Re-estimate is then evaluated on its empty set of members (the new
\* center comes out as NaN, unless the eigen-decomposition itself fails),
\* and no step detects or repairs the empty cluster: the test takes the NaN
\* center over as a current center and the loop goes on.
C28_CoincidingCentersEmptyCluster ==
    [][\A i \in 1..kmCall.num : \A j \in 1..kmCall.num :
          (kmCall.pc \in {"Assign", "Reestimate", "Test"}
              /\ i < j /\ kmCall.centers[i] = kmCall.centers[j]) =>
             /\ kmCall.pc = "Assign" =>
                   /\ kmCall'.pc = "Reestimate"
                   /\ \A p \in 1..Len(kmCall.points) : kmCall'.closest[p] # j
             /\ kmCall.pc = "Reestimate" =>
                   /\ \A p \in 1..Len(kmCall.points) : kmCall.closest[p] # j
                   /\ kmCall'.pc \in {"Test", "Raised"}
                   /\ kmCall'.pc = "Test" =>
                         kmCall'.new_centers[j] = <<NaN, NaN>>
                   /\ kmCall'.closest = kmCall.closest
                   /\ kmCall'.points = kmCall.points
             /\ kmCall.pc = "Test" =>
                   /\ kmCall'.pc = "Assign"
                   /\ kmCall'.centers = kmCall.new_centers
                   /\ kmCall'.centers[j] = <<NaN, NaN>>]_vars

\* two centers coincide, and the second has been re-estimated on no points
C28_Witness ==
    /\ kmCall.pc = "Test"
    /\ kmCall.num = 2
    /\ kmCall.centers[1] = kmCall.centers[2]
    /\ \A p \in 1..Len(kmCall.points) : kmCall.closest[p] = 1
    /\ kmCall.new_centers[2] = <<NaN, NaN>>

---------------------------------------------------------------------------
(* C24 *)

\* C24: parse_quadrant_measurement('AxxB') returns an azimuth in [0, 360]
\* equal to the azimuth of the cardinal letter A turned by xx degrees
\* toward the cardinal letter B when A and B are perpendicular; it raises
\* ValueError and returns nothing when A and B are parallel or antiparallel
\* or when either letter is none of N, E, S, W.
C24_QuadrantMeasurement ==
    (parseCall.fn = "parse_quadrant_measurement" /\ parseCall.pc # "call") =>
        LET A    == parseCall.src[1]
            xx   == parseCall.src[2]
            B    == parseCall.src[3]
            turn == (azimuth_of[B] - azimuth_of[A]) % (360 * Deg)
        IN  IF /\ {A, B} \subseteq {"N", "E", "S", "W"}
               /\ turn \in {90 * Deg, 270 * Deg}
            THEN /\ parseCall.pc = "returned"
                 /\ ~FloatNegative(parseCall.out)
                 /\ ~FloatAbove(parseCall.out, 360 * Deg)
                 /\ CircDiff(parseCall.out[1],
                             azimuth_of[A]
                                + (IF turn = 90 * Deg THEN xx ELSE -xx))
                       <= AngleTol
            ELSE /\ parseCall.pc = "raised"
                 /\ parseCall.error = "ValueError"
                 /\ parseCall.out = <<>>

\* W10S has been parsed: 270 turned by 10 degrees toward 180
C24_Witness ==
    /\ parseCall.fn = "parse_quadrant_measurement"
    /\ parseCall.pc = "returned"
    /\ parseCall.args = <<(<<"W", "1", "0", "S">>)>>
    /\ parseCall.out[1] = 260 * Deg

---------------------------------------------------------------------------
(* C25 *)

\* the float azi is in [0, 360)
C25_InRange(azi) ==
    /\ ~FloatNegative(azi)
    /\ azi[1] < 360 * Deg \/ (azi[1] = 360 * Deg /\ azi[2] < 0)

\* C25: parse_strike_dip returns a strike in [0, 360) that follows the
\* right-hand rule: when the dip carries direction letters the strike
\* returned is the given strike or its opposite end, and strike + 90 is not
\* at the opposite end from the dip direction (it is within 90 degrees of
\* it); ('N30E', '45NW') gives (210, 45) and ('350', '40W') gives (170, 40).
C25_StrikeRightHandRule ==
    (parseCall.fn = "parse_strike_dip" /\ parseCall.pc = "returned") =>
        LET given     == parseCall.src[1]
            direction == parseCall.src[3]
            strike    == parseCall.out[1]
            dip       == parseCall.out[2]
        IN  /\ C25_InRange(strike)
            /\ dip = parseCall.src[2]
            /\ direction = NaN => CircDiff(strike[1], given) <= AngleTol
            /\ direction # NaN =>
                  /\ \/ CircDiff(strike[1], given) <= AngleTol
                     \/ CircDiff(strike[1], given + 180 * Deg) <= AngleTol
                  /\ CircDiff(strike[1] + 90 * Deg, direction)
                        <= 90 * Deg + AngleTol
            /\ parseCall.args = <<(<<"N", "3", "0", "E">>),
                                  (<<"4", "5", "N", "W">>)>> =>
                  /\ Abs(strike[1] - 210 * Deg) <= AngleTol
                  /\ dip = 45 * Deg
            /\ parseCall.args = <<(<<"3", "5", "0">>), (<<"4", "0", "W">>)>> =>
                  /\ Abs(strike[1] - 170 * Deg) <= AngleTol
                  /\ dip = 40 * Deg

---------------------------------------------------------------------------
(* C26 *)

\* the direction at azimuth direction names the end opposite to azimuth
\* azi, and the end of azi itself (of a direction across azi neither)
C26_Opposite(azi, direction) == CircDiff(azi, direction) > 90 * Deg + AngleTol
C26_SameEnd(azi, direction) == CircDiff(azi, direction) < 90 * Deg - AngleTol

\* C26: parse_plunge_bearing always returns a plunge between 0 and 90 and a
\* bearing between 0 and 360: the bearing is switched to its opposite end
\* once for direction letters that name the opposite end, once for a
\* negative plunge and once for a plunge over 90, and the sum is wrapped
\* back into range; ('-170', '210') gives (10, 210) and ('10SW', 'N30E')
\* gives (10, 210).
C26_PlungeBearingRanges ==
    (parseCall.fn = "parse_plunge_bearing" /\ parseCall.pc = "returned") =>
        LET given     == parseCall.src[1]
            direction == parseCall.src[2]
            azi       == parseCall.src[3]
            plunge    == parseCall.out[1]
            bearing   == parseCall.out[2]
            switches(lettered) ==
                (IF lettered THEN 1 ELSE 0)
                  + (IF given < 0 THEN 1 ELSE 0)
                  + (IF Abs(given) > 90 * Deg THEN 1 ELSE 0)
            meant(lettered) == azi + switches(lettered) * 180 * Deg
        IN  /\ 0 <= plunge /\ plunge <= 90 * Deg
            /\ ~FloatNegative(bearing) /\ ~FloatAbove(bearing, 360 * Deg)
            /\ plunge = (IF Abs(given) > 90 * Deg THEN 180 * Deg - Abs(given)
                         ELSE Abs(given))
            /\ \/ direction # NaN /\ ~C26_SameEnd(azi, direction)
                     /\ CircDiff(bearing[1], meant(TRUE)) <= AngleTol
               \/ (direction = NaN \/ ~C26_Opposite(azi, direction))
                     /\ CircDiff(bearing[1], meant(FALSE)) <= AngleTol
            /\ parseCall.args = <<(<<"-", "1", "7", "0">>),
                                  (<<"2", "1", "0">>)>> =>
                  /\ plunge = 10 * Deg
                  /\ Abs(bearing[1] - 210 * Deg) <= AngleTol
            /\ parseCall.args = <<(<<"1", "0", "S", "W">>),
                                  (<<"N", "3", "0", "E">>)>> =>
                  /\ plunge = 10 * Deg
                  /\ Abs(bearing[1] - 210 * Deg) <= AngleTol

---------------------------------------------------------------------------
(* C27 *)

---------------------------------------------------------------------------
(* C21 *)

\* C21: with bidirectional = True, cov_eig on measurements of which a subset
\* is replaced by the antipodes returns the eigenvalues it returns on the
\* measurements themselves, and eigenvectors that are the same or the
\* opposite ones.
C21_AntipodesLeaveCovEig ==
    (anCall.fn = "cov_eig" /\ anCall.pc = "returned" /\ anCall.bidirectional)
    => /\ Len(anCall.out) = 2
       /\ \A i \in 1..3 :
            Abs(anCall.out[1][1][i] - anCall.out[2][1][i]) <= VecTol
       /\ \A i \in 1..3 :
            \/ \A r \in 1..3 : Abs(anCall.out[1][2][r][i]
                                   - anCall.out[2][2][r][i]) <= VecTol
            \/ \A r \in 1..3 : Abs(anCall.out[1][2][r][i]
                                   + anCall.out[2][2][r][i]) <= VecTol

\* cov_eig has returned for three lines and for the same lines with the
\* first and the last replaced by the antipodes, the second time with the
\* opposite of an eigenvector
C21_Witness ==
    /\ anCall.fn = "cov_eig"
    /\ anCall.pc = "returned"
    /\ anCall.bidirectional
    /\ anCall.src = <<"lines", 1, 5>>
    /\ Len(anCall.points) = 3
    /\ anCall.out[1][2] # anCall.out[2][2]

---------------------------------------------------------------------------
(* C22 *)

\* the covariance matrix the call anCall is made on
AnCov ==
    The({cov_eig_cov(pts, anCall.bidirectional) :
            pts \in {_convert_measurements(anCall.points,
                                           anCall.measurement)}})

\* the pole of the plane (strike, dip) as a plain cartesian triple
PoleFix(strike, dip) ==
    The({<<ToFix(v[1]), ToFix(v[2]), ToFix(v[3])>> :
            v \in {pole_vector(strike, dip)}})

\* v is an eigenvector of the matrix M with the eigenvalue w
IsEigenvector(M, v, w) ==
    \E r \in {mat_vec(M, v)} :
        \A i \in 1..3 : \E d \in {r[i] - MulT(w, v[i])} :
            d <= VecTol /\ -d <= VecTol

\* no eigenvalue of the symmetric matrix M is below w (least = TRUE) or
\* above w (least = FALSE): the principal minors of M - w I, or of w I - M,
\* of the orders one and two are not negative
IsExtreme(M, w, least) ==
    \E s \in {IF least THEN 1 ELSE -1} :
    \E A \in {<< <<s * (M[1][1] - w), s * M[1][2], s * M[1][3]>>,
                 <<s * M[2][1], s * (M[2][2] - w), s * M[2][3]>>,
                 <<s * M[3][1], s * M[3][2], s * (M[3][3] - w)>> >>} :
        /\ \A i \in 1..3 : A[i][i] >= -VecTol
        /\ \A i, j \in 1..3 :
              i < j => MulT(A[i][i], A[j][j]) - MulT(A[i][j], A[i][j])
                          >= -VecTol

\* C22: fit_girdle on the poles located at the points of plane(strike, dip),
\* strike every ten degrees of 0..360 and dip every ten degrees of 0..90,
\* returns a strike and dip whose pole is pole(strike, dip) or its antipode,
\* and that pole is the eigenvector of the least eigenvalue of the
\* measurements' covariance; the pole of what fit_pole returns is the
\* eigenvector of the largest.
C22_FitGirdleRecoversPlane ==
    /\ (anCall.fn = "fit_girdle" /\ anCall.pc # "call") =>
          /\ anCall.pc = "returned"
          /\ \E v \in {PoleFix(anCall.out[1][1], anCall.out[1][2])},
                u \in {pole_vector(anCall.src[2], anCall.src[3])},
                cov \in {AnCov} :
                \E w \in {quad_form(cov, v)} :
                    /\ SameAxis(<<Fix(v[1]), Fix(v[2]), Fix(v[3])>>, u)
                    /\ IsEigenvector(cov, v, w)
                    /\ IsExtreme(cov, w, TRUE)
    /\ (anCall.fn = "fit_pole" /\ anCall.pc # "call") =>
          /\ anCall.pc = "returned"
          /\ \E v \in {PoleFix(anCall.out[1][1], anCall.out[1][2])},
                cov \in {AnCov} :
                \E w \in {quad_form(cov, v)} :
                    /\ IsEigenvector(cov, v, w)
                    /\ IsExtreme(cov, w, FALSE)

\* fit_girdle has returned the plane for the poles at the points of
\* plane(130, 40)
C22_Witness ==
    /\ anCall.fn = "fit_girdle"
    /\ anCall.pc = "returned"
    /\ anCall.src = <<"plane", 130 * Deg, 40 * Deg>>
    /\ Abs(anCall.out[1][1] - 130 * Deg) <= AngleTol
    /\ Abs(anCall.out[1][2] - 40 * Deg) <= AngleTol

---------------------------------------------------------------------------
(* C23 *)

\* the line (plunge, bearing) as a plain cartesian triple
LineFix(plunge, bearing) ==
    The({The({<<ToFix(v[1]), ToFix(v[2]), ToFix(v[3])>> :
                 v \in {sph2cart(ll[1], ll[2])}}) :
            ll \in {line(plunge, bearing)}})

\* C23: eigenvectors returns the three eigenvalues largest first, and for
\* each i the line (plunges[i], bearings[i]) is an eigenvector of the
\* measurements' covariance whose eigenvalue is values[i].
C23_EigenvectorsDescendingAligned ==
    (anCall.fn = "eigenvectors" /\ anCall.pc # "call") =>
        /\ anCall.pc = "returned"
        /\ \E plunges \in {anCall.out[1][1]}, bearings \in {anCall.out[1][2]},
              values \in {anCall.out[1][3]}, cov \in {AnCov} :
              /\ Len(plunges) = 3 /\ Len(bearings) = 3 /\ Len(values) = 3
              /\ values[1] >= values[2]
              /\ values[2] >= values[3]
              /\ \A i \in 1..3 :
                    \E v \in {LineFix(plunges[i], bearings[i])} :
                    \E w \in {quad_form(cov, v)} :
                        /\ IsEigenvector(cov, v, w)
                        /\ w - values[i] <= VecTol
                        /\ values[i] - w <= VecTol

\* eigenvectors has returned for the five lines around the line plunging 40
\* degrees towards 120: the eigenvalues of the tests, the first direction
\* that line
C23_Witness ==
    /\ anCall.fn = "eigenvectors"
    /\ anCall.pc = "returned"
    /\ anCall.src = <<"cluster", 40 * Deg, 120 * Deg>>
    /\ Abs(anCall.out[1][3][1] - 1094333) <= VecTol
    /\ Abs(anCall.out[1][3][2] - 16778) <= VecTol
    /\ Abs(anCall.out[1][3][3]) <= VecTol
    /\ Abs(anCall.out[1][1][1] - 40 * Deg) <= AngleTol
    /\ Abs(anCall.out[1][2][1] - 120 * Deg) <= AngleTol

============================================================================
